---- MODULE Spec2Model ----
(***************************************************************************)
(* vakit-pi: prayer-time triggers and exclusive adhan playback.            *)
(*                                                                         *)
(* The module models, from the Python sources,                             *)
(*   - PrayerService.calculate / _apply_offset      (the day's six times)  *)
(*   - APSchedulerAdapter                           (the trigger store)    *)
(*   - SchedulerService.schedule_day / reschedule   (the daily planner)    *)
(*   - the application life cycle (lifespan, update_settings, shutdown)    *)
(*   - AdhanService and BaseAudioPlayer             (exclusive playback),  *)
(*     each coroutine cut at its asyncio suspension points.                *)
(*   - PrayerService queries and construction, Location and               *)
(*     VolumeSettings validation, SchedulerService.start and               *)
(*     InMemoryEventBus, each under direct calls.                          *)
(*                                                                         *)
(* Time is counted in whole minutes; a day has DayLen minutes.             *)
(***************************************************************************)
EXTENDS Integers, Sequences, FiniteSets, TLC

VARIABLES
    now,          \* wall clock, in minutes since the start of day 0
    phase,        \* "init" (state built), "running" (after startup), "down"
    settings,     \* AppState.settings = AdhanService._settings
    calc,         \* PrayerService: _offsets and _fajr_isha_method
    jobs,         \* APScheduler job store: sequence of jobs, ordered by run time
    started,      \* APSchedulerAdapter._started
    upd,          \* the update_settings request in flight
    isPlaying,    \* AdhanService._is_playing
    process,      \* BaseAudioPlayer._process: 0 (None) or a pid
    procs,        \* OS playback processes: pid -> state
    calls,        \* coroutines in flight: play_adhan, test_audio, stop_adhan
    env,          \* what the machine offers: audio assets, player binary
    lastEnd,      \* history: the call that ended last in this minute, and how
    last,         \* history: the last step that touched settings, jobs or clock
    replanKeys,   \* history: pending keys left by the first of successive replans
    plannedDates, \* history: the dates schedule_day has planned
    schedLast,    \* history: the last call made on the trigger scheduler API
    loop,         \* SchedulerService._running and the position of start()
    bus,          \* InMemoryEventBus._handlers: event type -> handlers in order
    ret           \* the call last made on a service object, and its outcome

vars == <<now, phase, settings, calc, jobs, started, upd, isPlaying, process,
          procs, calls, env, loop, bus, ret, lastEnd, last, replanKeys, plannedDates,
          schedLast>>

appVars   == <<now, phase, settings, calc, jobs, started, upd, last, replanKeys,
               plannedDates>>
audioVars == <<isPlaying, process, procs, calls, lastEnd>>

----------------------------------------------------------------------------
(* Bounds of the model *)

MaxDay == 1
DayLen == 24
MaxTasks == 1
MaxCalls == 2
MaxPid == 2
MaxPoll == 2
MaxSchedTime == 4
MaxHandlers == 2
MaxSubs == 3
MaxLoops == 2

(* Program constants *)

SecondsPerMinute == 60
RoundingSeconds == 30
DiyanetMethod == 2
MisfireGraceSeconds == 60

MaxTime == (MaxDay + 1) * DayLen - 1

----------------------------------------------------------------------------
(* Domain model *)

PrayerName == <<"imsak", "gunes", "ogle", "ikindi", "aksam", "yatsi">>

Prayers == {PrayerName[i] : i \in 1..Len(PrayerName)}

ZeroOffsets == [p \in Prayers |-> 0]

DIYANET_OFFSETS ==
    [p \in Prayers |->
        CASE p = "imsak"  -> 0
          [] p = "gunes"  -> -7
          [] p = "ogle"   -> 5
          [] p = "ikindi" -> 4
          [] p = "aksam"  -> 7
          [] p = "yatsi"  -> 0]

DefaultEnabled == Prayers \ {"gunes"}

\* Mutation of is_prayer_enabled: every prayer counts as enabled.
is_prayer_enabled_any(s, prayer) == TRUE

is_prayer_enabled(s, prayer) == prayer \in s.enabled_prayers

Date(t) == t \div DayLen

----------------------------------------------------------------------------
(* PrayerService *)

\* The external calculator: raw second-of-day of each prayer.  It is an
\* opaque function of the method; the tables are two of its possible outputs.
RawSeconds(method, prayer) ==
    IF method = DiyanetMethod
    THEN CASE prayer = "imsak"  -> 40
           [] prayer = "gunes"  -> 545
           [] prayer = "ogle"   -> 610
           [] prayer = "ikindi" -> 725
           [] prayer = "aksam"  -> 790
           [] prayer = "yatsi"  -> 1270
    ELSE CASE prayer = "imsak"  -> 20
           [] prayer = "gunes"  -> 545
           [] prayer = "ogle"   -> 610
           [] prayer = "ikindi" -> 725
           [] prayer = "aksam"  -> 790
           [] prayer = "yatsi"  -> 1270

\* Mutation of _apply_offset: the rounding bias is left out.
apply_offset_no_bias(rawSeconds, minutes) ==
    ((rawSeconds + minutes * SecondsPerMinute) \div SecondsPerMinute) % DayLen

\* _apply_offset: add the offset and the rounding bias, drop the seconds,
\* keep the time of day only (datetime.time() forgets the date).
apply_offset(rawSeconds, minutes) ==
    ((rawSeconds + minutes * SecondsPerMinute + RoundingSeconds)
        \div SecondsPerMinute) % DayLen

\* calculate(target_date): the minute of day of each prayer.
calculate(c, target_date) ==
    [p \in Prayers |-> apply_offset(RawSeconds(c.fajr_isha_method, p), c.offsets[p])]

\* datetime.combine(prayer_time.date, prayer_time.time)
prayer_datetime(c, target_date, prayer) ==
    target_date * DayLen + calculate(c, target_date)[prayer]

----------------------------------------------------------------------------
(* APSchedulerAdapter: the job store *)

NoJobs == << >>

JobIds(js) == {js[i].id : i \in 1..Len(js)}

KeysOf(js) == [i \in 1..Len(js) |-> js[i].id]

CountId(js, job_id) == Cardinality({i \in 1..Len(js) : js[i].id = job_id})

RemoveJob(js, job_id) == SelectSeq(js, LAMBDA j : j.id # job_id)

\* add_job: the store keeps its jobs ordered by run time.
AddJob(js, job) ==
    LET before == SelectSeq(js, LAMBDA j : j.run_time <= job.run_time)
        after  == SelectSeq(js, LAMBDA j : j.run_time > job.run_time)
    IN  before \o <<job>> \o after

\* Mutation of schedule_at: the existing job of the key is not removed.
schedule_at_keep(js, run_time, callback, job_id) ==
    AddJob(js, [id |-> job_id, run_time |-> run_time, callback |-> callback])

schedule_at(js, run_time, callback, job_id) ==
    AddJob(RemoveJob(js, job_id),
           [id |-> job_id, run_time |-> run_time, callback |-> callback])

cancel(js, job_id) == RemoveJob(js, job_id)

\* Mutation of cancel_all: only the first pending job is removed.
cancel_all_first(js) == IF js = NoJobs THEN js ELSE Tail(js)

\* Mutation of cancel_all: the pre-alert jobs are left in the store.
cancel_all_main_only(js) == SelectSeq(js, LAMBDA j : Len(j.id) > 3)

cancel_all(js) == NoJobs

\* get_scheduled_jobs: (key, instant) pairs ascending by instant.
get_scheduled_jobs(js) == [i \in 1..Len(js) |-> <<js[i].id, js[i].run_time>>]

----------------------------------------------------------------------------
(* SchedulerService: the daily planner *)

_make_job_id(prayer, date, suffix) ==
    IF suffix = "" THEN <<"prayer", prayer, date>>
                   ELSE <<"prayer", prayer, date, suffix>>

AdhanCallback(prayer) == [kind |-> "adhan", prayer |-> prayer, minutes |-> 0]

PreAlertCallback(prayer, minutes) ==
    [kind |-> "pre", prayer |-> prayer, minutes |-> minutes]

\* Mutation of the past-prayer test: a prayer exactly at now is still planned.
prayer_passed_strict(dt, t) == dt < t

\* schedule_day, "Gecmis vakitleri atla": prayer_datetime <= now
prayer_passed(dt, t) == dt <= t

\* Mutation of the pre-alert test: the lead time is not required to be positive.
pre_alert_due_any(pre_alert_minutes, dt, t) == dt - pre_alert_minutes > t

\* schedule_day: pre_alert_minutes > 0 and pre_alert_time > now
pre_alert_due(pre_alert_minutes, dt, t) ==
    pre_alert_minutes > 0 /\ dt - pre_alert_minutes > t

\* The body of the loop "for prayer in PrayerName" of schedule_day.
schedule_prayer(js, prayer, target_date, t, s, c) ==
    LET dt == prayer_datetime(c, target_date, prayer)
        withMain == schedule_at(js, dt, AdhanCallback(prayer),
                                _make_job_id(prayer, target_date, ""))
    IN  IF prayer_passed(dt, t) THEN js
        ELSE IF ~is_prayer_enabled(s, prayer) THEN js
        ELSE IF pre_alert_due(s.pre_alert_minutes, dt, t)
             THEN schedule_at(withMain, dt - s.pre_alert_minutes,
                              PreAlertCallback(prayer, s.pre_alert_minutes),
                              _make_job_id(prayer, target_date, "pre"))
             ELSE withMain

RECURSIVE schedule_from(_, _, _, _, _, _)
schedule_from(i, js, target_date, t, s, c) ==
    IF i > Len(PrayerName) THEN js
    ELSE schedule_from(i + 1,
                       schedule_prayer(js, PrayerName[i], target_date, t, s, c),
                       target_date, t, s, c)

\* schedule_day(target_date): the job store after planning target_date at t.
schedule_day(js, target_date, t, s, c) == schedule_from(1, js, target_date, t, s, c)

\* reschedule(): cancel_all, then schedule_day() for today.
reschedule(js, t, s, c) == schedule_day(cancel_all(js), Date(t), t, s, c)

----------------------------------------------------------------------------
(* Settings and inputs *)

DefaultSettings ==
    [enabled_prayers   |-> DefaultEnabled,
     pre_alert_minutes |-> 0,
     offsets           |-> DIYANET_OFFSETS,
     fajr_isha_method  |-> DiyanetMethod]

\* What load() may return at startup.
InitSettings ==
    {DefaultSettings,
     [DefaultSettings EXCEPT !.enabled_prayers = {"ogle", "yatsi"},
                             !.pre_alert_minutes = 1]}

\* The instants at which the application may be started.
InitTimes == {0, 15}

\* Bodies of PUT /settings: the fields named are given, the others are None.
Updates ==
    {[DefaultSettings EXCEPT !.enabled_prayers = {"imsak", "aksam"}]
        @@ [fields |-> {"enabled_prayers"}],
     [DefaultSettings EXCEPT !.pre_alert_minutes = 1]
        @@ [fields |-> {"pre_alert_minutes"}],
     [DefaultSettings EXCEPT !.pre_alert_minutes = 0]
        @@ [fields |-> {"pre_alert_minutes"}],
     [DefaultSettings EXCEPT !.offsets = ZeroOffsets]
        @@ [fields |-> {"offsets"}]}

\* update_settings, the partial update: PrayerSettings(... or current ...)
merge_settings(current, update) ==
    [enabled_prayers |->
        IF "enabled_prayers" \in update.fields /\ update.enabled_prayers # {}
        THEN update.enabled_prayers ELSE current.enabled_prayers,
     pre_alert_minutes |->
        IF "pre_alert_minutes" \in update.fields
        THEN update.pre_alert_minutes ELSE current.pre_alert_minutes,
     offsets |->
        IF "offsets" \in update.fields THEN update.offsets ELSE current.offsets,
     fajr_isha_method |->
        IF "fajr_isha_method" \in update.fields
        THEN update.fajr_isha_method ELSE current.fajr_isha_method]

GoodEnv == [default_asset |-> TRUE, specific_assets |-> {}, available |-> TRUE]

----------------------------------------------------------------------------
(* Components exercised on their own start idle *)

\* earlier: the wake times of the coroutines of start() called before the
\* latest one that are still in their sleep.
NoLoop == [running |-> FALSE, pc |-> "idle", wake |-> 0, raised |-> "none",
           earlier |-> << >>]

EventTypes == {"PrayerTimeReachedEvent", "AudioErrorEvent"}

NoBus == [t \in EventTypes |-> << >>]

NoRet == [op |-> "none"]

----------------------------------------------------------------------------
(* Coroutines in flight *)

CallIds == 1..MaxCalls
Pids == 1..MaxPid

FreeCall ==
    [kind |-> "none", pc |-> "free", prayer |-> "none", pid |-> 0,
     left |-> 0, after |-> "none", evs |-> << >>, setter |-> FALSE]

NoEnd ==
    [kind |-> "none", prayer |-> "none", result |-> "none", evs |-> << >>,
     code |-> "none"]

NoSched ==
    [op |-> "none", id |-> << >>, run_time |-> 0, callback |-> "none",
     existed |-> FALSE]

IsFree(c) == calls[c].pc = "free"

Tasks == {c \in CallIds : calls[c].kind = "adhan"}

\* Mutation of the trigger callback: the task is created, nothing is published.
NewAdhanTaskUnannounced(s, prayer) ==
    [FreeCall EXCEPT !.kind = "adhan", !.pc = "created", !.prayer = prayer]

\* The callback of a main trigger: publish PrayerTimeReached with
\* should_play_adhan = is_prayer_enabled(prayer), then
\* asyncio.create_task(play_adhan(prayer)): the coroutine exists, not yet run.
NewAdhanTask(s, prayer) ==
    [FreeCall EXCEPT !.kind = "adhan", !.pc = "created", !.prayer = prayer,
                     !.evs = <<IF is_prayer_enabled(s, prayer)
                               THEN "PrayerTimeReached(play)"
                               ELSE "PrayerTimeReached(skip)">>]

----------------------------------------------------------------------------
(* The application: lifespan, clock, triggers, settings update, shutdown *)

Init ==
    /\ now \in InitTimes
    /\ phase = "init"
    /\ settings \in InitSettings
    /\ calc = [offsets |-> settings.offsets,
               fajr_isha_method |-> settings.fajr_isha_method]
    /\ jobs = NoJobs
    /\ started = FALSE
    /\ upd = [pc |-> "idle", stale |-> FALSE]
    /\ isPlaying = FALSE
    /\ process = 0
    /\ procs = [p \in Pids |-> "free"]
    /\ calls = [c \in CallIds |-> FreeCall]
    /\ env = GoodEnv
    /\ loop = NoLoop
    /\ bus = NoBus
    /\ ret = NoRet
    /\ lastEnd = NoEnd
    /\ last = "other"
    /\ replanKeys = << >>
    /\ plannedDates = {}
    /\ schedLast = NoSched

\* lifespan, startup: scheduler_adapter.start(); scheduler_service.schedule_day()
Startup ==
    /\ phase = "init"
    /\ phase' = "running"
    /\ started' = TRUE
    /\ jobs' = schedule_day(jobs, Date(now), now, settings, calc)
    /\ plannedDates' = plannedDates \cup {Date(now)}
    /\ last' = "plan"
    /\ replanKeys' = << >>
    /\ UNCHANGED <<now, settings, calc, upd, schedLast, env, loop, bus, ret>>
    /\ UNCHANGED audioVars

\* The wall clock advances by a minute.  A started scheduler runs its due jobs
\* on time, so the clock does not pass a due job.
Tick ==
    /\ now < MaxTime
    /\ \A i \in 1..Len(jobs) : jobs[i].run_time > now
    /\ now' = now + 1
    /\ last' = "other"
    /\ replanKeys' = << >>
    /\ lastEnd' = NoEnd
    /\ UNCHANGED <<phase, settings, calc, jobs, started, upd, plannedDates,
                   schedLast, env, loop, bus, ret, isPlaying, process, procs, calls>>

FireMark == IF upd.pc = "saving" /\ upd.stale THEN "stale_fire" ELSE "other"

\* A main trigger fires: _create_adhan_callback.callback publishes
\* PrayerTimeReached and creates the play_adhan task without awaiting it.
FireAdhan(i, c) ==
    /\ started
    /\ i \in 1..Len(jobs)
    /\ jobs[i].run_time <= now
    /\ jobs[i].callback.kind = "adhan"
    /\ IsFree(c)
    /\ \A d \in CallIds : d < c => ~IsFree(d)
    /\ Cardinality(Tasks) < MaxTasks
    /\ jobs' = SubSeq(jobs, 1, i - 1) \o SubSeq(jobs, i + 1, Len(jobs))
    /\ calls' = [calls EXCEPT ![c] = NewAdhanTask(settings, jobs[i].callback.prayer)]
    /\ last' = FireMark
    /\ replanKeys' = << >>
    /\ UNCHANGED <<now, phase, settings, calc, started, upd, plannedDates,
                   schedLast, env, loop, bus, ret, isPlaying, process, procs, lastEnd>>

\* A pre-alert trigger fires: _create_pre_alert_callback.callback publishes
\* PreAlert and nothing else.
FirePreAlert(i) ==
    /\ started
    /\ i \in 1..Len(jobs)
    /\ jobs[i].run_time <= now
    /\ jobs[i].callback.kind = "pre"
    /\ jobs' = SubSeq(jobs, 1, i - 1) \o SubSeq(jobs, i + 1, Len(jobs))
    /\ last' = FireMark
    /\ replanKeys' = << >>
    /\ UNCHANGED <<now, phase, settings, calc, started, upd, plannedDates,
                   schedLast, env, loop, bus, ret>>
    /\ UNCHANGED audioVars

\* PUT /settings up to "await state.settings_repository.save(new_settings)":
\* the settings are replaced in AppState, PrayerService (location, offsets)
\* and AdhanService, and the request waits for the file to be written.
UpdateBegin(update) ==
    /\ phase = "running"
    /\ upd.pc = "idle"
    /\ settings' = merge_settings(settings, update)
    /\ calc' = [calc EXCEPT !.offsets = settings'.offsets]
    /\ upd' = [pc |-> "saving", stale |-> TRUE]
    /\ last' = "other"
    /\ replanKeys' = << >>
    /\ UNCHANGED <<now, phase, jobs, started, plannedDates, schedLast, env, loop, bus, ret>>
    /\ UNCHANGED audioVars

\* save() returned: state.scheduler_service.reschedule(), and the request ends.
UpdateSaved ==
    /\ upd.pc = "saving"
    /\ jobs' = reschedule(jobs, now, settings, calc)
    /\ started' = (started \/ jobs' # NoJobs)
    /\ plannedDates' = plannedDates \cup {Date(now)}
    /\ upd' = [pc |-> "idle", stale |-> FALSE]
    /\ last' = "update_ok"
    /\ replanKeys' = << >>
    /\ UNCHANGED <<now, phase, settings, calc, schedLast, env, loop, bus, ret>>
    /\ UNCHANGED audioVars

\* save() raised (the file could not be written): the request ends with the
\* error, and the line after the await is not reached.
UpdateSaveFailed ==
    /\ upd.pc = "saving"
    /\ upd' = [pc |-> "idle", stale |-> FALSE]
    /\ last' = "update_error"
    /\ replanKeys' = << >>
    /\ UNCHANGED <<now, phase, settings, calc, jobs, started, plannedDates,
                   schedLast, env, loop, bus, ret>>
    /\ UNCHANGED audioVars

\* POST /scheduler/reschedule
Reschedule ==
    /\ phase = "running"
    /\ jobs' = reschedule(jobs, now, settings, calc)
    /\ started' = (started \/ jobs' # NoJobs)
    /\ plannedDates' = plannedDates \cup {Date(now)}
    /\ upd' = [upd EXCEPT !.stale = FALSE]
    /\ last' = IF last \in {"reschedule", "reschedule2"}
               THEN "reschedule2" ELSE "reschedule"
    /\ replanKeys' = IF last \in {"reschedule", "reschedule2"}
                     THEN replanKeys ELSE KeysOf(jobs')
    /\ UNCHANGED <<now, phase, settings, calc, schedLast, env, loop, bus, ret>>
    /\ UNCHANGED audioVars

\* lifespan, shutdown: shutdown_app_state() = scheduler_service.stop()
\* (cancel_all) and scheduler_adapter.shutdown().  The server has answered
\* its requests before it runs the shutdown.
Shutdown ==
    /\ phase = "running"
    /\ upd.pc = "idle"
    /\ phase' = "down"
    /\ jobs' = cancel_all(jobs)
    /\ started' = FALSE
    /\ last' = "shutdown"
    /\ replanKeys' = << >>
    /\ UNCHANGED <<now, settings, calc, upd, plannedDates, schedLast, env, loop, bus, ret>>
    /\ UNCHANGED audioVars

----------------------------------------------------------------------------
(* AdhanService and BaseAudioPlayer                                        *)
(*                                                                         *)
(* A coroutine runs without interruption from one suspension point to the  *)
(* next.  The operators below work on a record `a` holding the fields a    *)
(* step reads and writes: the busy flag, the player's process, the OS      *)
(* processes, the running call (with the events it has published) and the  *)
(* history of ended calls.                                                 *)

Cur(c) ==
    [isPlaying |-> isPlaying, process |-> process, procs |-> procs,
     call |-> calls[c], lastEnd |-> lastEnd]

Alive == {"running", "terminating"}
Exited == {"exit0", "exit1"}

\* event_bus.publish(event)
Publish(a, type) ==
    [a EXCEPT !.call.evs = Append(@, type)]

\* The coroutine returns (or raises): the call is over.  The record of the
\* ended call keeps the state of the process the call last held, if any.
End(a, result) ==
    [a EXCEPT !.lastEnd = [kind |-> a.call.kind, prayer |-> a.call.prayer,
                           result |-> result, evs |-> a.call.evs,
                           code |-> IF a.call.pid = 0 THEN "none"
                                    ELSE a.procs[a.call.pid]],
              !.call = FreeCall]

\* Mutation of play_adhan's finally block: the flag is left as it is.
adhan_finally_keep(a) == a

\* play_adhan, finally: self._is_playing = False
adhan_finally(a) == [a EXCEPT !.isPlaying = FALSE]

\* test_audio, finally: self._is_playing = False
test_finally(a) == [a EXCEPT !.isPlaying = FALSE]

\* BaseAudioPlayer.is_playing
player_is_playing(a) == a.process # 0 /\ a.procs[a.process] \in Alive

\* Mutation of the file check: the path is taken to exist.
asset_exists_unchecked(prayer) == TRUE

\* get_adhan_path(prayer).exists(): the prayer's own file if there is one,
\* else the default file of the adhan type.
asset_exists(prayer) ==
    prayer \in env.specific_assets \/ env.default_asset

\* Where a coroutine goes on after BaseAudioPlayer.stop() has returned.
after_stop(a, after) ==
    CASE after = "spawn" ->
           [a EXCEPT !.call.pc = "spawning", !.call.pid = 0, !.call.after = "none"]
      [] after = "ret_true"      -> End(test_finally(a), "true")
      [] after = "ret_false"     -> End(test_finally(a), "false")
      [] after = "ret_cancelled" -> End(test_finally(a), "cancelled_false")
      [] after = "stop_done"     -> End([a EXCEPT !.isPlaying = FALSE], "stopped")

\* BaseAudioPlayer.stop up to its await: nothing to do without a process;
\* terminate() on a process already reaped raises ProcessLookupError, which
\* is passed over; else the process is signalled and the coroutine waits for
\* it (a process that ignores the signal for 2 s is killed: either way the
\* wait ends when the process is gone).
player_stop(a, after) ==
    IF a.process = 0 THEN after_stop(a, after)
    ELSE IF a.procs[a.process] \notin Alive
         THEN after_stop([a EXCEPT !.process = 0], after)
         ELSE [a EXCEPT !.procs[a.process] = "terminating",
                        !.call.pc = "stopwait",
                        !.call.pid = a.process,
                        !.call.after = after]

\* Mutation of play_adhan's except block: the error is logged only.
adhan_error_silent(a) == End(adhan_finally(a), "error")

\* play_adhan, except Exception: publish AudioError; then the finally block.
adhan_error(a) == End(adhan_finally(Publish(a, "AudioError")), "error")

\* test_audio, except Exception: await self._audio_player.stop(); return False
test_error(a) == player_stop(a, "ret_false")

\* _start_playback up to its first await, after the file check that its
\* callers have already made on the same path.
start_playback(a) ==
    IF ~env.available
    THEN IF a.call.kind = "adhan" THEN adhan_error(a) ELSE test_error(a)
    ELSE player_stop(a, "spawn")

\* Mutation of the busy check: no request is rejected.
busy_never(a) == FALSE

\* The busy check of play_adhan and test_audio: if self._is_playing
busy(a) == a.isPlaying

\* play_adhan from its start to its first suspension.
play_adhan_begin(a) ==
    IF ~is_prayer_enabled(settings, a.call.prayer) THEN End(a, "disabled")
    ELSE IF busy(a) THEN End(a, "busy")
    ELSE IF ~asset_exists(a.call.prayer)
         THEN End(Publish(a, "AudioError"), "nofile")
         ELSE start_playback(Publish([a EXCEPT !.isPlaying = TRUE,
                                           !.call.setter = TRUE], "AdhanStarted"))

\* test_audio from its start to its first suspension.
test_audio_begin(a) ==
    IF ~env.default_asset THEN End(a, "nofile_false")
    ELSE IF busy(a) THEN End(a, "busy_false")
    ELSE start_playback([a EXCEPT !.isPlaying = TRUE, !.call.setter = TRUE])

\* stop_adhan from its start to its first suspension.
stop_adhan_begin(a) ==
    IF a.isPlaying \/ player_is_playing(a)
    THEN player_stop(a, "stop_done")
    ELSE End(a, "noop")

\* A pid no process and no coroutine holds.
Spawnable(pid) ==
    /\ procs[pid] \notin Alive
    /\ process # pid
    /\ \A d \in CallIds : calls[d].pid # pid

\* The step's result becomes the next state; a process that has exited and
\* that nothing refers to any more is forgotten.  History: the call that set
\* the busy flag last is marked as its setter, in place of the one before.
Commit(c, a) ==
    LET newCalls == [d \in CallIds |->
                        IF d = c THEN a.call
                        ELSE IF a.call.setter /\ ~calls[c].setter
                             THEN [calls[d] EXCEPT !.setter = FALSE]
                             ELSE calls[d]]
        referenced(pid) == a.process = pid \/ \E d \in CallIds : newCalls[d].pid = pid
    IN  /\ isPlaying' = a.isPlaying
        /\ process' = a.process
        /\ procs' = [pid \in Pids |->
                        IF a.procs[pid] \in Exited /\ ~referenced(pid)
                        THEN "free" ELSE a.procs[pid]]
        /\ calls' = newCalls
        /\ lastEnd' = a.lastEnd

LowestFree(c) == IsFree(c) /\ \A d \in CallIds : d < c => ~IsFree(d)

\* The play_adhan task created by a trigger starts to run.
AdhanBegin(c) ==
    /\ calls[c].pc = "created"
    /\ Commit(c, play_adhan_begin(Cur(c)))
    /\ UNCHANGED <<appVars, env, loop, bus, ret, schedLast>>

\* POST /audio/test: test_audio(volume, duration); the duration is counted
\* in polls of the playback status.
TestBegin(c, duration) ==
    /\ LowestFree(c)
    /\ Commit(c, test_audio_begin(
                    [Cur(c) EXCEPT !.call = [FreeCall EXCEPT !.kind = "test",
                                                              !.left = duration]]))
    /\ UNCHANGED <<appVars, env, loop, bus, ret, schedLast>>

\* POST /audio/stop: stop_adhan()
StopBegin(c) ==
    /\ LowestFree(c)
    /\ Commit(c, stop_adhan_begin(
                    [Cur(c) EXCEPT !.call = [FreeCall EXCEPT !.kind = "stop"]]))
    /\ UNCHANGED <<appVars, env, loop, bus, ret, schedLast>>

\* BaseAudioPlayer.stop after its await: finally self._process = None.
StopWaitDone(c) ==
    /\ calls[c].pc = "stopwait"
    /\ procs[calls[c].pid] \in Exited
    /\ Commit(c, after_stop([Cur(c) EXCEPT !.process = 0], calls[c].after))
    /\ UNCHANGED <<appVars, env, loop, bus, ret, schedLast>>

\* create_subprocess_exec returned: self._process is the new process.
\* play() goes on to communicate() with it; test_audio starts its polling.
SpawnOk(c, pid) ==
    /\ calls[c].pc = "spawning"
    /\ Spawnable(pid)
    /\ \A q \in Pids : q < pid => ~Spawnable(q)
    /\ LET a == [Cur(c) EXCEPT !.procs[pid] = "running", !.process = pid]
       IN  Commit(c, [a EXCEPT !.call.pc = IF a.call.kind = "adhan"
                                           THEN "communicate" ELSE "poll",
                               !.call.pid = pid])
    /\ UNCHANGED <<appVars, env, loop, bus, ret, schedLast>>

\* create_subprocess_exec raised: the process could not be spawned.
SpawnFail(c) ==
    /\ calls[c].pc = "spawning"
    /\ Commit(c, IF calls[c].kind = "adhan" THEN adhan_error(Cur(c))
                                            ELSE test_error(Cur(c)))
    /\ UNCHANGED <<appVars, env, loop, bus, ret, schedLast>>

\* _wait_for_completion after communicate(): self._process.returncode is
\* read (an AttributeError when _process is None by now; a non-zero code is
\* logged only), self._process = None, and play_adhan publishes AdhanFinished.
CommunicateDone(c) ==
    /\ calls[c].pc = "communicate"
    /\ procs[calls[c].pid] \in Exited
    /\ Commit(c, IF process = 0
                 THEN adhan_error(Cur(c))
                 ELSE End(adhan_finally(
                            Publish([Cur(c) EXCEPT !.process = 0], "AdhanFinished")),
                          "finished"))
    /\ UNCHANGED <<appVars, env, loop, bus, ret, schedLast>>

\* test_audio wakes from asyncio.sleep(check_interval): the loop condition,
\* then "if is_playing(): await stop()" and return True.
TestPoll(c) ==
    /\ calls[c].pc = "poll"
    /\ LET a == [Cur(c) EXCEPT !.call.left = @ - 1]
       IN  Commit(c, IF a.call.left > 0 /\ player_is_playing(a) THEN a
                     ELSE IF player_is_playing(a) THEN player_stop(a, "ret_true")
                     ELSE End(test_finally(a), "true"))
    /\ UNCHANGED <<appVars, env, loop, bus, ret, schedLast>>

\* The coroutine is cancelled where it is suspended.  Inside
\* BaseAudioPlayer.stop the finally block still clears _process.
cancelled(a) ==
    LET b == IF a.call.pc = "stopwait" THEN [a EXCEPT !.process = 0] ELSE a
    IN  CASE a.call.kind = "adhan" -> End(adhan_finally(b), "cancelled")
          [] a.call.kind = "stop"  -> End(b, "cancelled")
          [] a.call.kind = "test"  ->
               IF a.call.pc = "stopwait" /\ a.call.after \in {"ret_false", "ret_cancelled"}
               THEN End(test_finally(b), "cancelled")
               ELSE player_stop(b, "ret_cancelled")

CancelCall(c) ==
    /\ calls[c].pc \in {"stopwait", "spawning", "communicate", "poll"}
    /\ Commit(c, cancelled(Cur(c)))
    /\ UNCHANGED <<appVars, env, loop, bus, ret, schedLast>>

\* A playback process ends: by itself (exit code 0 or not), or because it
\* was signalled.
ProcExit(pid, code) ==
    /\ procs[pid] \in Alive
    /\ procs[pid] = "terminating" => code = "exit1"
    /\ LET a == [Cur(1) EXCEPT !.procs[pid] = code]
       IN  Commit(1, a)
    /\ UNCHANGED <<appVars, env, loop, bus, ret, schedLast>>

----------------------------------------------------------------------------
(* Specifications *)

\* The application as it runs: startup, clock, triggers, requests, shutdown.
Next ==
    \/ Startup
    \/ Tick
    \/ \E i \in 1..Len(jobs), c \in CallIds : FireAdhan(i, c)
    \/ \E i \in 1..Len(jobs) : FirePreAlert(i)
    \/ \E u \in Updates : UpdateBegin(u)
    \/ UpdateSaved
    \/ UpdateSaveFailed
    \/ Reschedule
    \/ Shutdown
    \/ \E c \in CallIds : AdhanBegin(c)
    \/ \E c \in CallIds, pid \in Pids : SpawnOk(c, pid)
    \/ \E c \in CallIds : SpawnFail(c)
    \/ \E c \in CallIds : CommunicateDone(c)
    \/ \E pid \in Pids, code \in Exited : ProcExit(pid, code)

Spec == Init /\ [][Next]_vars

\* The application left to itself: no settings update, no manual reschedule.
AutoNext ==
    \/ Startup
    \/ Tick
    \/ \E i \in 1..Len(jobs), c \in CallIds : FireAdhan(i, c)
    \/ \E i \in 1..Len(jobs) : FirePreAlert(i)
    \/ Shutdown
    \/ \E c \in CallIds : AdhanBegin(c)
    \/ \E c \in CallIds, pid \in Pids : SpawnOk(c, pid)
    \/ \E c \in CallIds : SpawnFail(c)
    \/ \E c \in CallIds : CommunicateDone(c)
    \/ \E pid \in Pids, code \in Exited : ProcExit(pid, code)

AutoSpec == Init /\ [][AutoNext]_vars

----------------------------------------------------------------------------
(* The playback coordinator under arbitrary requests *)

AudioEnvs ==
    {GoodEnv,
     [GoodEnv EXCEPT !.available = FALSE],
     [GoodEnv EXCEPT !.default_asset = FALSE],
     [GoodEnv EXCEPT !.default_asset = FALSE, !.specific_assets = {"imsak"}]}

\* The prayers whose triggers fire: one enabled, one disabled by default.
AudioPrayers == {"imsak", "gunes"}

AudioInit ==
    /\ now = 0
    /\ phase = "running"
    /\ settings = DefaultSettings
    /\ calc = [offsets |-> settings.offsets,
               fajr_isha_method |-> settings.fajr_isha_method]
    /\ jobs = NoJobs
    /\ started = TRUE
    /\ upd = [pc |-> "idle", stale |-> FALSE]
    /\ isPlaying = FALSE
    /\ process = 0
    /\ procs = [p \in Pids |-> "free"]
    /\ calls = [c \in CallIds |-> FreeCall]
    /\ env \in AudioEnvs
    /\ loop = NoLoop
    /\ bus = NoBus
    /\ ret = NoRet
    /\ lastEnd = NoEnd
    /\ last = "other"
    /\ replanKeys = << >>
    /\ plannedDates = {}
    /\ schedLast = NoSched

\* A main trigger of the prayer fires: its callback creates the task.
TriggerFires(c, prayer) ==
    /\ LowestFree(c)
    /\ calls' = [calls EXCEPT ![c] = NewAdhanTask(settings, prayer)]
    /\ UNCHANGED <<appVars, env, loop, bus, ret, schedLast, isPlaying, process, procs, lastEnd>>

AudioNext ==
    \/ \E c \in CallIds, p \in AudioPrayers : TriggerFires(c, p)
    \/ \E c \in CallIds : AdhanBegin(c)
    \/ \E c \in CallIds, d \in 1..MaxPoll : TestBegin(c, d)
    \/ \E c \in CallIds : StopBegin(c)
    \/ \E c \in CallIds : StopWaitDone(c)
    \/ \E c \in CallIds, pid \in Pids : SpawnOk(c, pid)
    \/ \E c \in CallIds : SpawnFail(c)
    \/ \E c \in CallIds : CommunicateDone(c)
    \/ \E c \in CallIds : TestPoll(c)
    \/ \E c \in CallIds : CancelCall(c)
    \/ \E pid \in Pids, code \in Exited : ProcExit(pid, code)

AudioSpec == AudioInit /\ [][AudioNext]_vars

----------------------------------------------------------------------------
(* The trigger scheduler under arbitrary calls of its interface *)

SchedKeys ==
    {_make_job_id("imsak", 0, ""), _make_job_id("imsak", 0, "pre"),
     _make_job_id("ogle", 0, "")}

SchedCallbacks == {AdhanCallback("imsak"), PreAlertCallback("imsak", 1)}

\* Instants a caller may ask for: past ones are permitted.
SchedTimes == {t \in (now - 2)..(now + 2) : t >= 0}

MisfireGrace == MisfireGraceSeconds \div SecondsPerMinute

SchedInit ==
    /\ now = 0
    /\ phase = "running"
    /\ settings = DefaultSettings
    /\ calc = [offsets |-> settings.offsets,
               fajr_isha_method |-> settings.fajr_isha_method]
    /\ jobs = NoJobs
    /\ started = FALSE
    /\ upd = [pc |-> "idle", stale |-> FALSE]
    /\ isPlaying = FALSE
    /\ process = 0
    /\ procs = [p \in Pids |-> "free"]
    /\ calls = [c \in CallIds |-> FreeCall]
    /\ env = GoodEnv
    /\ loop = NoLoop
    /\ bus = NoBus
    /\ ret = NoRet
    /\ lastEnd = NoEnd
    /\ last = "other"
    /\ replanKeys = << >>
    /\ plannedDates = {}
    /\ schedLast = NoSched

SchedFrame ==
    UNCHANGED <<phase, settings, calc, upd, last, replanKeys, plannedDates, env, loop, bus, ret,
                isPlaying, process, procs, calls, lastEnd>>

\* APSchedulerAdapter.schedule_at(run_time, callback, job_id)
SchedScheduleAt(run_time, callback, job_id) ==
    /\ jobs' = schedule_at(jobs, run_time, callback, job_id)
    /\ started' = TRUE
    /\ schedLast' = [op |-> "schedule_at", id |-> job_id, run_time |-> run_time,
                     callback |-> callback, existed |-> job_id \in JobIds(jobs)]
    /\ now' = now
    /\ SchedFrame

\* APSchedulerAdapter.cancel(job_id) -> bool
SchedCancel(job_id) ==
    /\ jobs' = cancel(jobs, job_id)
    /\ schedLast' = [NoSched EXCEPT !.op = "cancel", !.id = job_id,
                                    !.existed = job_id \in JobIds(jobs)]
    /\ UNCHANGED <<now, started>>
    /\ SchedFrame

\* APSchedulerAdapter.cancel_all()
SchedCancelAll ==
    /\ jobs' = cancel_all(jobs)
    /\ schedLast' = [NoSched EXCEPT !.op = "cancel_all", !.existed = jobs # NoJobs]
    /\ UNCHANGED <<now, started>>
    /\ SchedFrame

\* Mutation of the one-shot trigger: the job stays in the store after its run.
remove_run_job_keep(js, i) == js

\* A DateTrigger has no next run time after its run_date: the job that was
\* run leaves the store.
remove_run_job(js, i) == SubSeq(js, 1, i - 1) \o SubSeq(js, i + 1, Len(js))

\* The scheduler runs a due job: the job leaves the store and its callback
\* is invoked.
SchedFire(i) ==
    /\ started
    /\ i \in 1..Len(jobs)
    /\ jobs[i].run_time <= now
    /\ now - jobs[i].run_time <= MisfireGrace
    /\ jobs' = remove_run_job(jobs, i)
    /\ schedLast' = [op |-> "fire", id |-> jobs[i].id, run_time |-> jobs[i].run_time,
                     callback |-> jobs[i].callback, existed |-> TRUE]
    /\ UNCHANGED <<now, started>>
    /\ SchedFrame

\* A job later than misfire_grace_time is dropped without being run.
SchedMisfire(i) ==
    /\ started
    /\ i \in 1..Len(jobs)
    /\ now - jobs[i].run_time > MisfireGrace
    /\ jobs' = SubSeq(jobs, 1, i - 1) \o SubSeq(jobs, i + 1, Len(jobs))
    /\ schedLast' = [op |-> "misfire", id |-> jobs[i].id,
                     run_time |-> jobs[i].run_time,
                     callback |-> jobs[i].callback, existed |-> TRUE]
    /\ UNCHANGED <<now, started>>
    /\ SchedFrame

SchedTick ==
    /\ now < MaxSchedTime
    /\ \A i \in 1..Len(jobs) : jobs[i].run_time > now
    /\ now' = now + 1
    /\ schedLast' = NoSched
    /\ UNCHANGED <<jobs, started>>
    /\ SchedFrame

SchedNext ==
    \/ \E t \in SchedTimes, cb \in SchedCallbacks, k \in SchedKeys :
          SchedScheduleAt(t, cb, k)
    \/ \E k \in SchedKeys : SchedCancel(k)
    \/ SchedCancelAll
    \/ \E i \in 1..Len(jobs) : SchedFire(i)
    \/ \E i \in 1..Len(jobs) : SchedMisfire(i)
    \/ SchedTick

SchedSpec == SchedInit /\ [][SchedNext]_vars

----------------------------------------------------------------------------
(* Properties *)

InSession(c) ==
    calls[c].kind \in {"adhan", "test"} /\ calls[c].pc \notin {"free", "created"}

JustPlanned == last \in {"plan", "reschedule", "reschedule2", "update_ok"}

MainRegistered(p) ==
    /\ is_prayer_enabled(settings, p)
    /\ prayer_datetime(calc, Date(now), p) > now

\* C1: while a play_adhan or test_audio call that set the busy flag has not
\* ended, no further play_adhan or test_audio call gets past the busy check:
\* at most one such call is under way at any time.
C1_OneSessionAtATime ==
    Cardinality({c \in CallIds : InSession(c)}) <= 1

\* C2: in the running application left to itself, the triggers of a day's
\* enabled prayers are registered; a prayer whose instant has passed can no
\* longer be registered (schedule_day skips it), so by the instant of any
\* enabled prayer of today, today has been planned.
C2_NewDayPlanned ==
    \A p \in Prayers :
        (/\ phase = "running"
         /\ is_prayer_enabled(settings, p)
         /\ prayer_datetime(calc, Date(now), p) <= now)
        => Date(now) \in plannedDates

\* C3: the job store never holds two triggers with one key, and after
\* schedule_at the trigger pending under the key is the new one (its instant
\* and its action), whether or not the key was pending before.
C3_OneTriggerPerKey ==
    /\ \A i, j \in 1..Len(jobs) : jobs[i].id = jobs[j].id => i = j
    /\ schedLast.op = "schedule_at" =>
          \E i \in 1..Len(jobs) :
              jobs[i] = [id |-> schedLast.id, run_time |-> schedLast.run_time,
                         callback |-> schedLast.callback]

C3_Replaced ==
    /\ schedLast.op = "schedule_at"
    /\ schedLast.existed
    /\ Len(jobs) >= 2

\* C4: a second reschedule() right after a first one (same settings, same
\* instant) leaves the same pending keys as the first, none twice.
C4_ReplanIdempotent ==
    last = "reschedule2" =>
        /\ KeysOf(jobs) = replanKeys
        /\ \A i, j \in 1..Len(jobs) : jobs[i].id = jobs[j].id => i = j

C4_ReplannedTwice == last = "reschedule2" /\ Len(jobs) >= 2

\* C5: right after schedule_day, the main trigger prayer_<name>_<date> of a
\* prayer of today is pending if and only if the prayer is enabled and its
\* datetime is later than now; its instant is that datetime; and when every
\* enabled prayer has passed, nothing is pending.
C5_MainTriggers ==
    JustPlanned =>
        /\ \A p \in Prayers :
              LET id == _make_job_id(p, Date(now), "")
              IN  /\ CountId(jobs, id) = (IF MainRegistered(p) THEN 1 ELSE 0)
                  /\ \A i \in 1..Len(jobs) :
                        jobs[i].id = id =>
                            /\ jobs[i].run_time = prayer_datetime(calc, Date(now), p)
                            /\ jobs[i].callback = AdhanCallback(p)
        /\ (\A p \in Prayers : ~MainRegistered(p)) => jobs = NoJobs

C5_SomePassedSomePlanned ==
    /\ last = "reschedule"
    /\ \E p \in Prayers : MainRegistered(p)
    /\ \E p \in Prayers : /\ is_prayer_enabled(settings, p)
                          /\ prayer_datetime(calc, Date(now), p) = now
    /\ \E p \in Prayers : ~is_prayer_enabled(settings, p) /\ ~MainRegistered(p)

\* C6: right after schedule_day, the pre-alert trigger
\* prayer_<name>_<date>_pre is pending if and only if pre_alert_minutes > 0,
\* the prayer's main trigger was registered and the prayer time minus the lead
\* time is later than now; its instant is that time; with a lead time of 0
\* no pre-alert trigger is pending.
C6_PreAlertTriggers ==
    JustPlanned =>
        \A p \in Prayers :
            LET id == _make_job_id(p, Date(now), "pre")
                pre_time == prayer_datetime(calc, Date(now), p)
                                - settings.pre_alert_minutes
                due == /\ settings.pre_alert_minutes > 0
                       /\ MainRegistered(p)
                       /\ pre_time > now
            IN  /\ CountId(jobs, id) = (IF due THEN 1 ELSE 0)
                /\ \A i \in 1..Len(jobs) :
                      jobs[i].id = id =>
                          /\ jobs[i].run_time = pre_time
                          /\ jobs[i].callback =
                                PreAlertCallback(p, settings.pre_alert_minutes)

C6_PreAlertPlanned ==
    /\ last = "reschedule"
    /\ settings.pre_alert_minutes > 0
    /\ \E p \in Prayers : CountId(jobs, _make_job_id(p, Date(now), "pre")) = 1
    /\ \E p \in Prayers :
          /\ MainRegistered(p)
          /\ CountId(jobs, _make_job_id(p, Date(now), "pre")) = 0

\* C7: when a settings update has ended, with success or with the error of
\* save(), the pending triggers are those a replan under the new settings
\* produces.
C7_UpdateReplans ==
    last \in {"update_ok", "update_error"} =>
        jobs = reschedule(NoJobs, now, settings, calc)

\* C8: no trigger registered under the previous settings fires between the
\* replacement of the settings and the end of the update's replan.
C8_NoStaleFire == last # "stale_fire"

\* C9: when shutdown completes, no trigger is pending and no playback process
\* is still running; afterwards nothing is planned and nothing is pending.
C9_ShutdownClean ==
    [][/\ (phase = "running" /\ phase' = "down") =>
             /\ jobs' = NoJobs
             /\ \A pid \in Pids : procs'[pid] \notin Alive
       /\ phase = "down" =>
             /\ plannedDates' = plannedDates
             /\ jobs' = NoJobs]_vars

\* C10: the step that ends a play_adhan or test_audio call which had set the
\* busy flag, whatever the reason, leaves the flag clear.
C10_FlagReleased ==
    [][\A c \in CallIds :
          (InSession(c) /\ calls'[c].pc = "free") => ~isPlaying']_vars

C10_EndedByError ==
    /\ lastEnd.kind = "adhan"
    /\ lastEnd.result = "error"
    /\ lastEnd.evs = <<"PrayerTimeReached(play)", "AdhanStarted", "AudioError">>
    /\ ~isPlaying

C12_FailureGivesAudioError ==
    (/\ lastEnd.kind = "adhan"
     /\ lastEnd.result \in {"finished", "error"}
     /\ lastEnd.code \in {"exit1", "none"})
    => /\ lastEnd.evs[Len(lastEnd.evs)] = "AudioError"
       /\ \A i \in 1..Len(lastEnd.evs) : lastEnd.evs[i] # "AdhanFinished"

\* C13: a play_adhan call for an enabled prayer, made while the coordinator
\* is idle and neither the prayer's own file nor the default file exists,
\* returns in one step having published AudioError and nothing else: no
\* AdhanStarted, no process started, the busy flag never set.
C13_MissingFileOnlyErrorEvent ==
    [][\A c \in CallIds :
          (/\ calls[c].pc = "created"
           /\ calls'[c].pc # "created"
           /\ is_prayer_enabled(settings, calls[c].prayer)
           /\ ~isPlaying
           /\ calls[c].prayer \notin env.specific_assets
           /\ ~env.default_asset)
          => /\ calls'[c] = FreeCall
             /\ lastEnd' = [kind |-> "adhan", prayer |-> calls[c].prayer,
                            result |-> "nofile", code |-> "none",
                            evs |-> Append(calls[c].evs, "AudioError")]
             /\ Len(calls[c].evs) = 1
             /\ ~isPlaying'
             /\ process' = process
             /\ procs' = procs]_vars

C13_MissingFileReported ==
    /\ lastEnd.kind = "adhan"
    /\ lastEnd.result = "nofile"
    /\ lastEnd.evs = <<"PrayerTimeReached(play)", "AudioError">>
    /\ ~env.default_asset
    /\ lastEnd.prayer \notin env.specific_assets
    /\ ~isPlaying

\* C14: a play_adhan call that finds the busy flag set ends at once with no
\* event and no effect on the flag, the player's process or any OS process,
\* so it cannot start a playback later; an adhan playback process is only
\* ever started by a call that was accepted (it has published AdhanStarted)
\* and has not started one before.
C14_RejectedIsDropped ==
    [][\A c \in CallIds :
          /\ (/\ calls[c].pc = "created"
              /\ calls'[c].pc # "created"
              /\ is_prayer_enabled(settings, calls[c].prayer)
              /\ isPlaying)
             => /\ calls'[c] = FreeCall
                /\ lastEnd' = [kind |-> "adhan", prayer |-> calls[c].prayer,
                               result |-> "busy", code |-> "none",
                               evs |-> calls[c].evs]
                /\ isPlaying'
                /\ process' = process
                /\ procs' = procs
          /\ (/\ calls'[c].kind = "adhan"
              /\ calls'[c].pc = "communicate"
              /\ calls[c].pc # "communicate")
             => /\ calls[c].kind = "adhan"
                /\ calls[c].pc = "spawning"
                /\ calls[c].evs = calls'[c].evs
                /\ Len(calls[c].evs) = 2
                /\ calls[c].evs[2] = "AdhanStarted"]_vars

C14_RejectedWhilePlaying ==
    /\ lastEnd.kind = "adhan"
    /\ lastEnd.result = "busy"
    /\ lastEnd.evs = <<"PrayerTimeReached(play)">>
    /\ isPlaying
    /\ process # 0
    /\ procs[process] = "running"
    /\ \E c \in CallIds : calls[c].kind = "adhan" /\ calls[c].pc = "communicate"

\* C15: a play_adhan call for a prayer that is not in enabled_prayers ends at
\* once: it publishes nothing, starts no process, and leaves the busy flag,
\* the player's process and every OS process as they were.
C15_DisabledIsNoOp ==
    [][\A c \in CallIds :
          (/\ calls[c].pc = "created"
           /\ calls'[c].pc # "created"
           /\ calls[c].prayer \notin settings.enabled_prayers)
          => /\ calls'[c] = FreeCall
             /\ lastEnd' = [kind |-> "adhan", prayer |-> calls[c].prayer,
                            result |-> "disabled", code |-> "none",
                            evs |-> calls[c].evs]
             /\ isPlaying' = isPlaying
             /\ process' = process
             /\ procs' = procs]_vars

C15_DisabledWhilePlaying ==
    /\ lastEnd.kind = "adhan"
    /\ lastEnd.result = "disabled"
    /\ lastEnd.prayer = "gunes"
    /\ lastEnd.evs = <<"PrayerTimeReached(skip)">>
    /\ isPlaying
    /\ process # 0
    /\ procs[process] = "running"

StopEndsNow ==
    /\ calls' = calls
    /\ lastEnd' # lastEnd
    /\ lastEnd'.kind = "stop"

\* C16: stop_adhan called during a session terminates the session's playback
\* and clears the busy flag: a live process the player holds is signalled and
\* waited for, and when stop_adhan has ended the process has exited, the
\* player holds no process, the flag is clear and no play_adhan or
\* test_audio call is still on its way to start a playback.  stop_adhan
\* called while the flag is clear and the player is not playing (after a
\* natural completion, or after an earlier stop_adhan) terminates nothing
\* and changes nothing.
C16_StopTerminatesOrNoOp ==
    [][/\ \A c \in CallIds :
          /\ (calls[c].kind # "stop" /\ calls'[c].kind = "stop")
             => /\ process # 0
                /\ procs[process] \in Alive
                /\ procs' = [procs EXCEPT ![process] = "terminating"]
                /\ calls'[c].pc = "stopwait"
                /\ calls'[c].pid = process
          /\ (calls[c].kind = "stop" /\ calls'[c] = FreeCall
                /\ lastEnd'.result # "cancelled")
             => /\ procs[calls[c].pid] \in Exited
                /\ lastEnd'.result = "stopped"
                /\ ~isPlaying'
                /\ process' = 0
       /\ (StopEndsNow /\ lastEnd'.result = "stopped")
             => /\ isPlaying
                /\ ~isPlaying'
                /\ process' = 0
                /\ \A c \in CallIds :
                      ~(/\ calls'[c].kind \in {"adhan", "test"}
                        /\ calls'[c].pc = "spawning")
       /\ (StopEndsNow /\ lastEnd'.result = "noop")
             => /\ ~isPlaying
                /\ ~(process # 0 /\ procs[process] \in Alive)
                /\ isPlaying' = isPlaying
                /\ process' = process
                /\ procs' = procs]_vars

\* C17: when a test_audio call has returned True, the playback process that
\* the call started is no longer playing.
C17_TestTrueMeansPlaybackOver ==
    (lastEnd.kind = "test" /\ lastEnd.result = "true")
        => lastEnd.code # "running"

\* C18: when a test_audio call that was cancelled during its wait has
\* returned False, the playback process that the call started is no longer
\* playing.
C18_CancelledTestStopsItsPlayback ==
    (lastEnd.kind = "test" /\ lastEnd.result = "cancelled_false")
        => lastEnd.code # "running"

JobsGone == {i \in 1..Len(jobs) : \A j \in 1..Len(jobs') : jobs'[j] # jobs[i]}

FireStep == schedLast'.op = "fire" /\ (schedLast' # schedLast \/ jobs' # jobs)

\* A trigger that fires is a pending one, its instant has arrived, the action
\* invoked is the one pending under its key, and the trigger is then no
\* longer pending (so it is never run again); after cancel(key) nothing is
\* pending under the key.
FiredOnceCancelledNever ==
    /\ FireStep =>
          /\ \E i \in 1..Len(jobs) :
                jobs[i] = [id |-> schedLast'.id, run_time |-> schedLast'.run_time,
                           callback |-> schedLast'.callback]
          /\ schedLast'.run_time <= now
          /\ CountId(jobs', schedLast'.id) = 0
          /\ Len(jobs') = Len(jobs) - 1
    /\ schedLast'.op = "cancel" => CountId(jobs', schedLast'.id) = 0
    /\ schedLast'.op = "cancel_all" => jobs' = NoJobs

\* C19 as stated: every registered trigger ends as Fired or as Cancelled
\* (cancel, cancel_all, or replaced by schedule_at with its key) and in no
\* other way; a trigger that fires invokes its action once and is removed.
C19_FiredOrCancelledOnly ==
    [][/\ FiredOnceCancelledNever
       /\ \A i \in JobsGone :
             \/ schedLast'.op = "fire" /\ schedLast'.id = jobs[i].id
             \/ schedLast'.op = "cancel" /\ schedLast'.id = jobs[i].id
             \/ schedLast'.op = "schedule_at" /\ schedLast'.id = jobs[i].id
             \/ schedLast'.op = "cancel_all"]_vars

\* C19, amended: every registered trigger ends as Fired, as Cancelled
\* (cancel, cancel_all, or replaced by schedule_at with its key), or as
\* Missed: a trigger that is more than misfire_grace_time (60 s) late is
\* removed without its action being invoked.  A trigger that fires is at
\* most 60 s late, invokes its action once and is removed.
C19_FiredCancelledOrMissed ==
    [][/\ FiredOnceCancelledNever
       /\ FireStep => now - schedLast'.run_time <= MisfireGrace
       /\ \A i \in JobsGone :
             \/ schedLast'.op = "fire" /\ schedLast'.id = jobs[i].id
             \/ schedLast'.op = "cancel" /\ schedLast'.id = jobs[i].id
             \/ schedLast'.op = "schedule_at" /\ schedLast'.id = jobs[i].id
             \/ schedLast'.op = "cancel_all"
             \/ /\ schedLast'.op = "misfire"
                /\ schedLast'.id = jobs[i].id
                /\ now - jobs[i].run_time > MisfireGrace]_vars

C19_FiredAndRemoved ==
    /\ schedLast.op = "fire"
    /\ CountId(jobs, schedLast.id) = 0
    /\ schedLast.run_time = now
    /\ Len(jobs) >= 1

JobsNew == {j \in 1..Len(jobs') : \A i \in 1..Len(jobs) : jobs[i] # jobs'[j]}

\* C20: after cancel_all() nothing is pending; a trigger fires only while it
\* is pending, and a trigger becomes pending only by schedule_at: so a
\* trigger that was pending before cancel_all() does not fire afterwards
\* (unless it is registered again).
C20_CancelAllClears ==
    [][/\ schedLast'.op = "cancel_all" => jobs' = NoJobs
       /\ schedLast.op = "cancel_all" => jobs = NoJobs /\ ~FireStep
       /\ FireStep =>
             \E i \in 1..Len(jobs) :
                jobs[i] = [id |-> schedLast'.id, run_time |-> schedLast'.run_time,
                           callback |-> schedLast'.callback]
       /\ \A j \in JobsNew :
             /\ schedLast'.op = "schedule_at"
             /\ jobs'[j] = [id |-> schedLast'.id, run_time |-> schedLast'.run_time,
                            callback |-> schedLast'.callback]]_vars

C20_PendingCleared ==
    /\ schedLast.op = "cancel_all"
    /\ schedLast.existed
    /\ jobs = NoJobs
    /\ started

IsReached(e) == e \in {"PrayerTimeReached(play)", "PrayerTimeReached(skip)"}

\* C21: the callback of a main trigger publishes PrayerTimeReached and
\* creates the play_adhan task without running it: when the callback returns
\* the task has not started, and the busy flag, the player and the OS
\* processes are as they were.  In the events of every firing
\* PrayerTimeReached is the first, so it precedes AdhanStarted.
C21_ReachedThenDetachedPlay ==
    [][\A c \in CallIds :
          /\ (calls[c].kind # "adhan" /\ calls'[c].kind = "adhan")
             => /\ calls'[c].pc = "created"
                /\ Len(calls'[c].evs) = 1
                /\ IsReached(calls'[c].evs[1])
                /\ isPlaying' = isPlaying
                /\ process' = process
                /\ procs' = procs
          /\ calls'[c].kind = "adhan"
             => /\ Len(calls'[c].evs) >= 1
                /\ IsReached(calls'[c].evs[1])
                /\ \A i \in 1..Len(calls'[c].evs) :
                      calls'[c].evs[i] = "AdhanStarted" => i > 1]_vars

C21_CallbackReturnedBeforePlayback ==
    /\ phase = "running"
    /\ \E c \in CallIds :
          /\ calls[c].kind = "adhan"
          /\ calls[c].pc = "created"
          /\ calls[c].evs = <<"PrayerTimeReached(play)">>
    /\ ~isPlaying
    /\ \A pid \in Pids : procs[pid] \notin Alive

----------------------------------------------------------------------------
(* PrayerService called directly: the queries on the day's times *)

TURKEY_TIMEZONES == {"Europe/Istanbul", "Asia/Istanbul"}

\* What TimezoneFinder.timezone_at may answer for a location.
FinderResults == {"Europe/Istanbul", "Asia/Istanbul", "Europe/London", "None"}

\* An optional argument: left out (None) or given with a value.
NotGiven == [given |-> FALSE]

Given(v) == [given |-> TRUE, value |-> v]

\* Mutation of __init__: the automatic preset wins over explicit offsets.
PrayerService_init_preset_first(tz_str, fajr_isha_method, offsets, auto_diyanet_offsets) ==
    LET timezone_name == IF tz_str = "None" THEN "UTC" ELSE tz_str
    IN  [timezone_name    |-> timezone_name,
         fajr_isha_method |-> fajr_isha_method,
         offsets |-> IF auto_diyanet_offsets /\ timezone_name \in TURKEY_TIMEZONES
                     THEN DIYANET_OFFSETS
                     ELSE IF offsets.given THEN offsets.value
                     ELSE ZeroOffsets]

\* PrayerService.__init__: the timezone of the location (UTC when the finder
\* has no answer) and the offsets in use.
PrayerService_init(tz_str, fajr_isha_method, offsets, auto_diyanet_offsets) ==
    LET timezone_name == IF tz_str = "None" THEN "UTC" ELSE tz_str
    IN  [timezone_name    |-> timezone_name,
         fajr_isha_method |-> fajr_isha_method,
         offsets |-> IF offsets.given THEN offsets.value
                     ELSE IF auto_diyanet_offsets /\ timezone_name \in TURKEY_TIMEZONES
                     THEN DIYANET_OFFSETS
                     ELSE ZeroOffsets]

\* now.time(), in minutes of the day
TimeOf(t) == t % DayLen

MinOf(S) == CHOOSE i \in S : \A j \in S : i <= j

MaxOf(S) == CHOOSE i \in S : \A j \in S : i >= j

PrayerTimeOf(name, time, date) == [name |-> name, time |-> time, date |-> date]

\* Mutation of get_next_prayer: a prayer whose time is now counts as next.
get_next_prayer_at_or_after(c, t) ==
    LET today_times == calculate(c, Date(t))
        ahead == {i \in 1..Len(PrayerName) : TimeOf(t) <= today_times[PrayerName[i]]}
    IN  IF ahead # {}
        THEN PrayerTimeOf(PrayerName[MinOf(ahead)],
                          today_times[PrayerName[MinOf(ahead)]], Date(t))
        ELSE PrayerTimeOf(PrayerName[1],
                          calculate(c, Date(t) + 1)[PrayerName[1]], Date(t) + 1)

\* get_next_prayer(now): the first prayer of PrayerName with
\* current_time < its time, else tomorrow's first prayer.
get_next_prayer(c, t) ==
    LET today_times == calculate(c, Date(t))
        ahead == {i \in 1..Len(PrayerName) : TimeOf(t) < today_times[PrayerName[i]]}
    IN  IF ahead # {}
        THEN PrayerTimeOf(PrayerName[MinOf(ahead)],
                          today_times[PrayerName[MinOf(ahead)]], Date(t))
        ELSE PrayerTimeOf(PrayerName[1],
                          calculate(c, Date(t) + 1)[PrayerName[1]], Date(t) + 1)

\* Mutation of get_current_prayer: a prayer starts a minute after its time.
get_current_prayer_after(c, t) ==
    LET times == calculate(c, Date(t))
        reached == {i \in 1..Len(PrayerName) : TimeOf(t) > times[PrayerName[i]]}
    IN  IF reached # {} THEN PrayerName[MaxOf(reached)]
                        ELSE PrayerName[Len(PrayerName)]

\* Mutation of get_current_prayer: before the first prayer of the day the
\* first prayer is returned.
get_current_prayer_first_before_dawn(c, t) ==
    LET times == calculate(c, Date(t))
        reached == {i \in 1..Len(PrayerName) : TimeOf(t) >= times[PrayerName[i]]}
    IN  IF reached # {} THEN PrayerName[MaxOf(reached)]
                        ELSE PrayerName[1]

\* get_current_prayer(now): scanning from the last prayer to the first, the
\* first with current_time >= its time; the last prayer when there is none.
get_current_prayer(c, t) ==
    LET times == calculate(c, Date(t))
        reached == {i \in 1..Len(PrayerName) : TimeOf(t) >= times[PrayerName[i]]}
    IN  IF reached # {} THEN PrayerName[MaxOf(reached)]
                        ELSE PrayerName[Len(PrayerName)]

\* Mutation of get_time_until_next_prayer: the date of the next prayer is
\* taken to be today.
get_time_until_same_day(c, t) ==
    LET next_prayer == get_next_prayer(c, t)
    IN  (Date(t) * DayLen + next_prayer.time) - t

\* get_time_until_next_prayer(now): combine(date, time) - now
get_time_until_next_prayer(c, t) ==
    LET next_prayer == get_next_prayer(c, t)
    IN  (next_prayer.date * DayLen + next_prayer.time) - t

\* Offsets a caller or a settings update may give; PrayerOffsets accepts
\* every integer.
YatsiEarly == [ZeroOffsets EXCEPT !["yatsi"] = -9]

YatsiPastMidnight == [ZeroOffsets EXCEPT !["yatsi"] = 3]

ServiceOffsets == {DIYANET_OFFSETS, ZeroOffsets, YatsiEarly, YatsiPastMidnight}

ServiceMethods == {1, DiyanetMethod}

ServiceInit ==
    /\ now \in 0..MaxTime
    /\ calc \in [offsets : ServiceOffsets, fajr_isha_method : ServiceMethods]
    /\ phase = "running"
    /\ settings = DefaultSettings
    /\ jobs = NoJobs
    /\ started = FALSE
    /\ upd = [pc |-> "idle", stale |-> FALSE]
    /\ isPlaying = FALSE
    /\ process = 0
    /\ procs = [p \in Pids |-> "free"]
    /\ calls = [c \in CallIds |-> FreeCall]
    /\ env = GoodEnv
    /\ loop = NoLoop
    /\ bus = NoBus
    /\ ret = NoRet
    /\ lastEnd = NoEnd
    /\ last = "other"
    /\ replanKeys = << >>
    /\ plannedDates = {}
    /\ schedLast = NoSched

ServiceFrame ==
    UNCHANGED <<now, phase, settings, jobs, started, upd, isPlaying, process,
                procs, calls, env, loop, bus, lastEnd, last, replanKeys,
                plannedDates, schedLast>>

\* PrayerService(location, fajr_isha_method, offsets, auto_diyanet_offsets)
ServiceNew(tz_str, offsets, auto_diyanet_offsets) ==
    LET self == PrayerService_init(tz_str, calc.fajr_isha_method, offsets,
                                   auto_diyanet_offsets)
    IN  /\ calc' = [offsets |-> self.offsets,
                    fajr_isha_method |-> self.fajr_isha_method]
        /\ ret' = [op |-> "PrayerService", tz_str |-> tz_str, offsets |-> offsets,
                   auto_diyanet_offsets |-> auto_diyanet_offsets, result |-> self]
        /\ ServiceFrame

ServiceCalculate(target_date) ==
    /\ ret' = [op |-> "calculate", self |-> calc, date |-> target_date,
               result |-> calculate(calc, target_date)]
    /\ UNCHANGED calc
    /\ ServiceFrame

ServiceNextPrayer ==
    /\ ret' = [op |-> "get_next_prayer", self |-> calc, now |-> now,
               result |-> get_next_prayer(calc, now)]
    /\ UNCHANGED calc
    /\ ServiceFrame

ServiceCurrentPrayer ==
    /\ ret' = [op |-> "get_current_prayer", self |-> calc, now |-> now,
               result |-> get_current_prayer(calc, now)]
    /\ UNCHANGED calc
    /\ ServiceFrame

ServiceTimeUntil ==
    /\ ret' = [op |-> "get_time_until_next_prayer", self |-> calc, now |-> now,
               result |-> get_time_until_next_prayer(calc, now)]
    /\ UNCHANGED calc
    /\ ServiceFrame

ServiceNext ==
    \/ \E tz_str \in FinderResults, auto \in BOOLEAN,
          offsets \in {NotGiven} \cup {Given(o) : o \in ServiceOffsets} :
          ServiceNew(tz_str, offsets, auto)
    \/ \E d \in 0..MaxDay : ServiceCalculate(d)
    \/ ServiceNextPrayer
    \/ ServiceCurrentPrayer
    \/ ServiceTimeUntil

ServiceSpec == ServiceInit /\ [][ServiceNext]_vars

\* The invariant of a day's times: strictly increasing in PrayerName order.
ValidDayTimes(times) ==
    \A i \in 1..(Len(PrayerName) - 1) : times[PrayerName[i]] < times[PrayerName[i + 1]]

C24_TimeUntilNextPositive ==
    ret.op = "get_time_until_next_prayer" => ret.result > 0

C24_AfterTheLastPrayer ==
    /\ ret.op = "get_time_until_next_prayer"
    /\ \A p \in Prayers : calculate(ret.self, Date(ret.now))[p] <= TimeOf(ret.now)
    /\ \E p \in Prayers : calculate(ret.self, Date(ret.now))[p] = TimeOf(ret.now)
    /\ ret.result > 0

\* C25: for every date the six times calculate(date) returns are strictly
\* increasing in the order of PrayerName.
C25_TimesStrictlyIncreasing ==
    ret.op = "calculate" => ValidDayTimes(ret.result)

\* C26: for every prayer the final clock time is the raw time plus the offset
\* minutes plus the rounding bias, cut down to the whole minute: counted in
\* seconds on the clock of a day, the biased time lies in the minute returned.
\* With the bias of half a minute this is the raw-plus-offset time rounded to
\* the nearest minute, halves up.
C26_BiasedThenTruncated ==
    ret.op = "calculate" =>
        \A p \in Prayers :
            LET exact == RawSeconds(ret.self.fajr_isha_method, p)
                         + ret.self.offsets[p] * SecondsPerMinute
                final == ret.result[p] * SecondsPerMinute
                day == DayLen * SecondsPerMinute
            IN  /\ ret.result[p] \in 0..(DayLen - 1)
                /\ (exact + RoundingSeconds - final) % day \in 0..(SecondsPerMinute - 1)
                /\ (2 * RoundingSeconds = SecondsPerMinute)
                   => (final - exact + RoundingSeconds - 1) % day
                          \in 0..(SecondsPerMinute - 1)

C26_RoundedUpAndDown ==
    /\ ret.op = "calculate"
    /\ ret.self.offsets = DIYANET_OFFSETS
    /\ ret.self.fajr_isha_method = DiyanetMethod
    /\ RawSeconds(DiyanetMethod, "imsak") < ret.result["imsak"] * SecondsPerMinute
    /\ RawSeconds(DiyanetMethod, "ogle") + DIYANET_OFFSETS["ogle"] * SecondsPerMinute
           > ret.result["ogle"] * SecondsPerMinute

\* C27 as stated: constructed without explicit offsets, the service has the
\* regional preset when the location's timezone is one of the regional ones
\* and all-zero offsets otherwise; explicit offsets are used as they are.
C27_PresetByTimezoneAlone ==
    ret.op = "PrayerService" =>
        /\ ~ret.offsets.given
           => ret.result.offsets =
                 IF ret.result.timezone_name \in TURKEY_TIMEZONES
                 THEN DIYANET_OFFSETS ELSE ZeroOffsets
        /\ ret.offsets.given => ret.result.offsets = ret.offsets.value

\* C27: constructed without explicit offsets and with auto_diyanet_offsets
\* on (the default), the service has the regional preset when the location's
\* timezone is one of the regional ones and all-zero offsets otherwise; with
\* auto_diyanet_offsets off and no explicit offsets the offsets are all zero
\* for every location; explicit offsets are used as they are.
C27_PresetByTimezoneWhenAuto ==
    ret.op = "PrayerService" =>
        /\ (~ret.offsets.given /\ ret.auto_diyanet_offsets)
           => ret.result.offsets =
                 IF ret.result.timezone_name \in TURKEY_TIMEZONES
                 THEN DIYANET_OFFSETS ELSE ZeroOffsets
        /\ (~ret.offsets.given /\ ~ret.auto_diyanet_offsets)
           => ret.result.offsets = ZeroOffsets
        /\ ret.offsets.given => ret.result.offsets = ret.offsets.value

C27_PresetAppliedInTurkey ==
    /\ ret.op = "PrayerService"
    /\ ~ret.offsets.given
    /\ ret.auto_diyanet_offsets
    /\ ret.result.timezone_name \in TURKEY_TIMEZONES
    /\ ret.result.offsets = DIYANET_OFFSETS

----------------------------------------------------------------------------
(* Domain models: validation at construction *)

DefaultVolume == 80
SecondsPerHour == 3600

Raised(error) == [ok |-> FALSE, error |-> error]

Built(value) == [ok |-> TRUE, value |-> value]

\* Mutation of Location.__post_init__: a coordinate out of range is clamped.
Location_new_clamped(latitude, longitude) ==
    LET Clamp(v, lo, hi) == IF v < lo THEN lo ELSE IF v > hi THEN hi ELSE v
    IN  Built([latitude  |-> Clamp(latitude, -90, 90),
               longitude |-> Clamp(longitude, -180, 180)])

\* Location(latitude, longitude): __post_init__ raises ValueError
Location_new(latitude, longitude) ==
    IF ~(-90 <= latitude /\ latitude <= 90) THEN Raised("ValueError")
    ELSE IF ~(-180 <= longitude /\ longitude <= 180) THEN Raised("ValueError")
    ELSE Built([latitude |-> latitude, longitude |-> longitude])

\* Mutation of VolumeSettings.__post_init__: only the default is validated.
VolumeSettings_new_default_only(kw) ==
    LET values == [f \in DOMAIN kw \cup {"default"} |->
                      IF f \in DOMAIN kw THEN kw[f] ELSE DefaultVolume]
    IN  IF ~(0 <= values["default"] /\ values["default"] <= 100)
        THEN Raised("ValueError")
        ELSE Built(values)

\* VolumeSettings(**kw): a field left out of kw keeps its default (80 for
\* default, None for a prayer); __post_init__ raises ValueError for a value
\* that is not None and not in 0..100.
VolumeSettings_new(kw) ==
    LET values == [f \in DOMAIN kw \cup {"default"} |->
                      IF f \in DOMAIN kw THEN kw[f] ELSE DefaultVolume]
    IN  IF \E f \in DOMAIN values : ~(0 <= values[f] /\ values[f] <= 100)
        THEN Raised("ValueError")
        ELSE Built(values)

Latitudes == {-91, -90, 41, 90, 91}

Longitudes == {-181, -180, 29, 180, 181}

Volumes == {-1, 0, 80, 100, 101}

\* The fields a caller names when building VolumeSettings.
VolumeArgs == {"default", "imsak", "yatsi"}

DomainInit ==
    /\ now = 0
    /\ calc = [offsets |-> DIYANET_OFFSETS, fajr_isha_method |-> DiyanetMethod]
    /\ phase = "running"
    /\ settings = DefaultSettings
    /\ jobs = NoJobs
    /\ started = FALSE
    /\ upd = [pc |-> "idle", stale |-> FALSE]
    /\ isPlaying = FALSE
    /\ process = 0
    /\ procs = [p \in Pids |-> "free"]
    /\ calls = [c \in CallIds |-> FreeCall]
    /\ env = GoodEnv
    /\ loop = NoLoop
    /\ bus = NoBus
    /\ ret = NoRet
    /\ lastEnd = NoEnd
    /\ last = "other"
    /\ replanKeys = << >>
    /\ plannedDates = {}
    /\ schedLast = NoSched

DomainFrame ==
    UNCHANGED <<now, calc, phase, settings, jobs, started, upd, isPlaying,
                process, procs, calls, env, loop, bus, lastEnd, last,
                replanKeys, plannedDates, schedLast>>

NewLocation(latitude, longitude) ==
    /\ ret' = [op |-> "Location", latitude |-> latitude, longitude |-> longitude,
               result |-> Location_new(latitude, longitude)]
    /\ DomainFrame

NewVolumeSettings(kw) ==
    /\ ret' = [op |-> "VolumeSettings", kw |-> kw, result |-> VolumeSettings_new(kw)]
    /\ DomainFrame

DomainNext ==
    \/ \E latitude \in Latitudes, longitude \in Longitudes :
          NewLocation(latitude, longitude)
    \/ \E fields \in SUBSET VolumeArgs :
          \E kw \in [fields -> Volumes] : NewVolumeSettings(kw)

DomainSpec == DomainInit /\ [][DomainNext]_vars

\* C28: Location with a latitude outside [-90, 90] or a longitude outside
\* [-180, 180], and VolumeSettings with any volume outside [0, 100], fail
\* with an error; every value inside the ranges is accepted and the object
\* built holds exactly the values given.
C28_InvalidRejectedValidKept ==
    /\ ret.op = "Location" =>
          IF /\ -90 <= ret.latitude /\ ret.latitude <= 90
             /\ -180 <= ret.longitude /\ ret.longitude <= 180
          THEN /\ ret.result.ok
               /\ ret.result.value.latitude = ret.latitude
               /\ ret.result.value.longitude = ret.longitude
          ELSE ~ret.result.ok /\ ret.result.error = "ValueError"
    /\ ret.op = "VolumeSettings" =>
          IF \A f \in DOMAIN ret.kw : 0 <= ret.kw[f] /\ ret.kw[f] <= 100
          THEN /\ ret.result.ok
               /\ \A f \in DOMAIN ret.kw : ret.result.value[f] = ret.kw[f]
          ELSE ~ret.result.ok /\ ret.result.error = "ValueError"

C28_PrayerVolumeRejected ==
    /\ ret.op = "VolumeSettings"
    /\ "imsak" \in DOMAIN ret.kw
    /\ ret.kw["imsak"] = 101
    /\ \A f \in DOMAIN ret.kw \ {"imsak"} : ret.kw[f] \in 0..100
    /\ ~ret.result.ok

----------------------------------------------------------------------------
(* SchedulerService.start(): the day-rollover loop, run as a task *)

\* sleep(wait_seconds + 60): a minute after the next midnight
NextWake(t) == (Date(t) + 1) * DayLen + SecondsPerMinute \div SecondsPerMinute

LoopInit ==
    /\ now \in InitTimes
    /\ phase = "running"
    /\ settings = DefaultSettings
    /\ calc = [offsets |-> settings.offsets,
               fajr_isha_method |-> settings.fajr_isha_method]
    /\ jobs = NoJobs
    /\ started = TRUE
    /\ upd = [pc |-> "idle", stale |-> FALSE]
    /\ isPlaying = FALSE
    /\ process = 0
    /\ procs = [p \in Pids |-> "free"]
    /\ calls = [c \in CallIds |-> FreeCall]
    /\ env = GoodEnv
    /\ loop = NoLoop
    /\ bus = NoBus
    /\ ret = NoRet
    /\ lastEnd = NoEnd
    /\ last = "other"
    /\ replanKeys = << >>
    /\ plannedDates = {}
    /\ schedLast = NoSched

LoopFrame ==
    UNCHANGED <<phase, settings, calc, started, upd, isPlaying, process, procs,
                calls, env, bus, ret, lastEnd, last, replanKeys, schedLast>>

\* start() up to its first sleep.  schedule_day() either plans today or
\* raises (planOk = FALSE), and before the loop nothing catches it.
LoopStart(planOk) ==
    /\ loop.pc = "idle"
    /\ IF loop.running
       THEN UNCHANGED <<loop, jobs, plannedDates>>
       ELSE IF planOk
            THEN /\ jobs' = schedule_day(jobs, Date(now), now, settings, calc)
                 /\ plannedDates' = plannedDates \cup {Date(now)}
                 /\ loop' = [loop EXCEPT !.running = TRUE, !.pc = "sleeping",
                                         !.wake = NextWake(now)]
            ELSE /\ loop' = [loop EXCEPT !.running = TRUE, !.pc = "raised",
                                         !.raised = "start"]
                 /\ UNCHANGED <<jobs, plannedDates>>
    /\ UNCHANGED now
    /\ LoopFrame

\* The sleep is over.  Inside the try: if _running, schedule_day(); only
\* CancelledError is caught, so any other error leaves start().  Then the
\* while test, and the next sleep.
LoopWake(planOk) ==
    /\ loop.pc = "sleeping"
    /\ now >= loop.wake
    /\ IF ~loop.running
       THEN /\ loop' = [loop EXCEPT !.pc = "returned"]
            /\ UNCHANGED <<jobs, plannedDates>>
       ELSE IF planOk
            THEN /\ jobs' = schedule_day(jobs, Date(now), now, settings, calc)
                 /\ plannedDates' = plannedDates \cup {Date(now)}
                 /\ loop' = [loop EXCEPT !.wake = NextWake(now)]
            ELSE /\ loop' = [loop EXCEPT !.pc = "raised", !.raised = "loop"]
                 /\ UNCHANGED <<jobs, plannedDates>>
    /\ UNCHANGED now
    /\ LoopFrame

\* The task is cancelled while it sleeps: except asyncio.CancelledError: break
LoopCancelled ==
    /\ loop.pc = "sleeping"
    /\ loop' = [loop EXCEPT !.pc = "returned"]
    /\ UNCHANGED <<now, jobs, plannedDates>>
    /\ LoopFrame

\* stop(): _running = False; cancel_all()
LoopStop ==
    /\ loop.running
    /\ loop' = [loop EXCEPT !.running = FALSE]
    /\ jobs' = cancel_all(jobs)
    /\ UNCHANGED <<now, plannedDates>>
    /\ LoopFrame

\* A minute passes; the scheduler runs the jobs that fall due and they leave
\* the store.
LoopTick ==
    /\ now < MaxTime
    /\ now' = now + 1
    /\ jobs' = SelectSeq(jobs, LAMBDA j : j.run_time > now + 1)
    /\ UNCHANGED <<loop, plannedDates>>
    /\ LoopFrame

LoopNext ==
    \/ \E planOk \in BOOLEAN : LoopStart(planOk)
    \/ \E planOk \in BOOLEAN : LoopWake(planOk)
    \/ LoopCancelled
    \/ LoopStop
    \/ LoopTick

LoopSpec == LoopInit /\ [][LoopNext]_vars

\* C29: the day-rollover loop survives a failure of a single planning step:
\* after schedule_day has raised inside the loop, start() is still in its
\* loop (asleep until the next day's planning) unless it was stopped or
\* cancelled.
C29_LoopSurvivesPlanningFailure ==
    loop.raised = "loop" => loop.pc \in {"sleeping", "returned"}

----------------------------------------------------------------------------
(* InMemoryEventBus *)

\* The callables a client may subscribe: each either returns or raises an
\* Exception when it is invoked.
Handlers == [id : 1..MaxHandlers, raises : BOOLEAN]

NoRun == [invoked |-> << >>, logged |-> << >>, outcome |-> "returned"]

RECURSIVE run_handlers(_, _)

\* for handler in handlers: try: handler(event) except Exception: log
run_handlers(handlers, acc) ==
    IF handlers = << >> THEN acc
    ELSE LET handler == Head(handlers)
             called == [acc EXCEPT !.invoked = Append(@, handler)]
         IN  run_handlers(Tail(handlers),
                          IF handler.raises
                          THEN [called EXCEPT !.logged = Append(@, handler)]
                          ELSE called)

\* Mutation of publish: the error of a handler is not caught.
publish_uncaught(b, event_type) ==
    LET handlers == b[event_type]
        acc == NoRun
        firstBad == {i \in 1..Len(handlers) :
                        /\ handlers[i].raises
                        /\ \A j \in 1..(i - 1) : ~handlers[j].raises}
    IN  IF firstBad = {}
        THEN [acc EXCEPT !.invoked = handlers]
        ELSE [acc EXCEPT !.invoked = SubSeq(handlers, 1, CHOOSE i \in firstBad : TRUE),
                         !.outcome = "raised"]

\* publish(event): the handlers of type(event), none when the type has no entry
publish(b, event_type) == run_handlers(b[event_type], NoRun)

\* subscribe(event_type, handler): append
subscribe(b, event_type, handler) ==
    [b EXCEPT ![event_type] = Append(@, handler)]

\* unsubscribe(event_type, handler): list.remove drops the first occurrence
unsubscribe(b, event_type, handler) ==
    LET hs == b[event_type]
        at == {i \in 1..Len(hs) : hs[i] = handler}
    IN  IF at = {} THEN b
        ELSE LET i == CHOOSE k \in at : \A j \in at : k <= j
             IN  [b EXCEPT ![event_type] =
                     SubSeq(hs, 1, i - 1) \o SubSeq(hs, i + 1, Len(hs))]

\* clear_all()
clear_all(b) == NoBus

BusInit ==
    /\ now = 0
    /\ calc = [offsets |-> DIYANET_OFFSETS, fajr_isha_method |-> DiyanetMethod]
    /\ phase = "running"
    /\ settings = DefaultSettings
    /\ jobs = NoJobs
    /\ started = FALSE
    /\ upd = [pc |-> "idle", stale |-> FALSE]
    /\ isPlaying = FALSE
    /\ process = 0
    /\ procs = [p \in Pids |-> "free"]
    /\ calls = [c \in CallIds |-> FreeCall]
    /\ env = GoodEnv
    /\ loop = NoLoop
    /\ bus = NoBus
    /\ ret = NoRet
    /\ lastEnd = NoEnd
    /\ last = "other"
    /\ replanKeys = << >>
    /\ plannedDates = {}
    /\ schedLast = NoSched

BusFrame ==
    UNCHANGED <<now, calc, phase, settings, jobs, started, upd, isPlaying,
                process, procs, calls, env, loop, lastEnd, last, replanKeys,
                plannedDates, schedLast>>

BusSubscribe(event_type, handler) ==
    /\ Len(bus[event_type]) < MaxSubs
    /\ bus' = subscribe(bus, event_type, handler)
    /\ ret' = [op |-> "subscribe", event_type |-> event_type]
    /\ BusFrame

BusUnsubscribe(event_type, handler) ==
    /\ bus' = unsubscribe(bus, event_type, handler)
    /\ ret' = [op |-> "unsubscribe", event_type |-> event_type]
    /\ BusFrame

BusClearAll ==
    /\ bus' = clear_all(bus)
    /\ ret' = [op |-> "clear_all"]
    /\ BusFrame

BusPublish(event_type) ==
    /\ ret' = [op |-> "publish", event_type |-> event_type,
               result |-> publish(bus, event_type)]
    /\ UNCHANGED bus
    /\ BusFrame

BusNext ==
    \/ \E t \in EventTypes, h \in Handlers : BusSubscribe(t, h)
    \/ \E t \in EventTypes, h \in Handlers : BusUnsubscribe(t, h)
    \/ BusClearAll
    \/ \E t \in EventTypes : BusPublish(t)

BusSpec == BusInit /\ [][BusNext]_vars

\* C30: publish(event) invokes every handler subscribed to the type of the
\* event, once for each subscription and in subscription order; a handler
\* that raises an error does not keep the handlers after it from being
\* invoked, its error is logged, and publish returns normally to its caller.
C30_AllHandlersInOrderErrorsContained ==
    ret.op = "publish" =>
        /\ ret.result.invoked = bus[ret.event_type]
        /\ ret.result.outcome = "returned"
        /\ ret.result.logged = SelectSeq(bus[ret.event_type], LAMBDA h : h.raises)

C30_RaisingHandlerInTheMiddle ==
    /\ ret.op = "publish"
    /\ Len(bus[ret.event_type]) = 3
    /\ ~bus[ret.event_type][1].raises
    /\ bus[ret.event_type][2].raises
    /\ ~bus[ret.event_type][3].raises
    /\ bus[ret.event_type][1] # bus[ret.event_type][3]
    /\ ret.result.invoked = bus[ret.event_type]
    /\ ret.result.outcome = "returned"

----------------------------------------------------------------------------
(* Sessions that overlap after a stop *)

\* C31: a test_audio call stops only the playback it started: when the call,
\* awake from its poll, goes on to stop the player, the process the player
\* holds is the one this call spawned, not one that a later play_adhan or
\* test_audio call started after stop_adhan had ended the test playback.
C31_TestStopsOnlyItsOwnPlayback ==
    [][\A c \in CallIds :
          (/\ calls[c].kind = "test"
           /\ calls[c].pc = "poll"
           /\ calls'[c].kind = "test"
           /\ calls'[c].pc = "stopwait")
          => calls'[c].pid = calls[c].pid]_vars

\* C32: at most one OS playback process is playing at any time (a process
\* that has been signalled to terminate is on its way out and is not
\* counted), and a playing process is the one the player holds in _process,
\* so that stop can terminate it.
C32_OneTrackedProcess ==
    /\ Cardinality({pid \in Pids : procs[pid] = "running"}) <= 1
    /\ \A pid \in Pids : procs[pid] = "running" => process = pid

\* C33: the busy flag is released only for the session that holds it: when
\* an earlier play_adhan or test_audio call ends while a later call, the one
\* that set the flag last, has its playback running, the flag stays set.
C33_ReleaseOnlyOwnFlag ==
    [][\A c, d \in CallIds :
          (/\ c # d
           /\ InSession(c)
           /\ calls'[c].kind = "none"
           /\ calls[d].setter
           /\ calls'[d].pc \in {"communicate", "poll"}
           /\ procs'[calls'[d].pid] = "running"
           /\ isPlaying)
          => isPlaying']_vars

\* C34: AdhanFinished is published only for a playback that ended by itself:
\* a play_adhan call whose process stop_adhan has terminated, and is still
\* waiting for, does not publish AdhanFinished when it ends.
C34_NoFinishedAfterStop ==
    [][\A c, d \in CallIds :
          (/\ calls[c].kind = "adhan"
           /\ calls[c].pc = "communicate"
           /\ calls'[c].kind = "none"
           /\ calls[d].kind = "stop"
           /\ calls[d].pc = "stopwait"
           /\ calls[d].pid = calls[c].pid)
          => \A i \in 1..Len(lastEnd'.evs) : lastEnd'.evs[i] # "AdhanFinished"]_vars

----------------------------------------------------------------------------
(* Further settings updates: the calculation method, prayers enabled again *)

\* Bodies of PUT /settings that name fajr_isha_method.
MethodUpdates ==
    {[DefaultSettings EXCEPT !.fajr_isha_method = 1]
        @@ [fields |-> {"fajr_isha_method"}]}

\* Bodies of PUT /settings that name enabled_prayers: a prayer disabled by
\* one of them is enabled by the other.
EnableUpdates ==
    {[DefaultSettings EXCEPT !.enabled_prayers = {"ogle", "yatsi"}]
        @@ [fields |-> {"enabled_prayers"}],
     [DefaultSettings EXCEPT !.enabled_prayers = {"imsak", "aksam"}]
        @@ [fields |-> {"enabled_prayers"}]}

\* The application as it runs, with these requests to PUT /settings.
SettingsNext ==
    \/ Startup
    \/ Tick
    \/ \E i \in 1..Len(jobs), c \in CallIds : FireAdhan(i, c)
    \/ \E i \in 1..Len(jobs) : FirePreAlert(i)
    \/ \E u \in MethodUpdates \cup EnableUpdates : UpdateBegin(u)
    \/ UpdateSaved
    \/ UpdateSaveFailed
    \/ Reschedule
    \/ Shutdown
    \/ \E c \in CallIds : AdhanBegin(c)
    \/ \E c \in CallIds, pid \in Pids : SpawnOk(c, pid)
    \/ \E c \in CallIds : SpawnFail(c)
    \/ \E c \in CallIds : CommunicateDone(c)
    \/ \E pid \in Pids, code \in Exited : ProcExit(pid, code)

SettingsSpec == Init /\ [][SettingsNext]_vars

\* C36: after a settings update has completed, the offsets and the
\* calculation method of the PrayerService equal those of the current
\* settings, so the replan has computed the day's times from the new values.
C36_CalculatorFollowsSettings ==
    last = "update_ok" =>
        /\ calc.offsets = settings.offsets
        /\ calc.fajr_isha_method = settings.fajr_isha_method

\* C35: no playback is started for a prayer that was disabled in the
\* settings at the time its trigger fired: the callback has published
\* PrayerTimeReached with should_play_adhan false, and the play_adhan task it
\* created ends without setting the busy flag or starting a process.
C35_SkipMeansNoPlayback ==
    [][\A c \in CallIds :
          (/\ calls[c].kind = "adhan"
           /\ calls[c].pc = "created"
           /\ calls[c].evs = <<"PrayerTimeReached(skip)">>
           /\ calls'[c].pc # "created")
          => /\ calls'[c] = FreeCall
             /\ isPlaying' = isPlaying
             /\ process' = process
             /\ procs' = procs]_vars


----------------------------------------------------------------------------
(* SchedulerService.start() called again *)

\* The coroutines of start() that are in their sleep.
Sleeping == Len(loop.earlier) + (IF loop.pc = "sleeping" THEN 1 ELSE 0)

\* start() called when an earlier call has run: it returns at once while
\* _running is set; otherwise it is a new coroutine with a loop of its own,
\* and the coroutine of the earlier call stays where it is.
LoopStartAgain(planOk) ==
    /\ loop.pc # "idle"
    /\ IF loop.running
       THEN UNCHANGED <<loop, jobs, plannedDates>>
       ELSE /\ Sleeping < MaxLoops
            /\ LET earlier == IF loop.pc = "sleeping"
                              THEN Append(loop.earlier, loop.wake)
                              ELSE loop.earlier
               IN  IF planOk
                   THEN /\ jobs' = schedule_day(jobs, Date(now), now, settings, calc)
                        /\ plannedDates' = plannedDates \cup {Date(now)}
                        /\ loop' = [loop EXCEPT !.running = TRUE,
                                                !.pc = "sleeping",
                                                !.wake = NextWake(now),
                                                !.earlier = earlier]
                   ELSE /\ loop' = [loop EXCEPT !.running = TRUE,
                                                !.pc = "raised",
                                                !.raised = "start",
                                                !.earlier = earlier]
                        /\ UNCHANGED <<jobs, plannedDates>>
    /\ UNCHANGED now
    /\ LoopFrame

Without(seq, i) == SubSeq(seq, 1, i - 1) \o SubSeq(seq, i + 1, Len(seq))

\* The sleep of an earlier coroutine is over: if _running, schedule_day();
\* then the while test on the same flag.
LoopEarlierWake(i, planOk) ==
    /\ i \in 1..Len(loop.earlier)
    /\ now >= loop.earlier[i]
    /\ IF ~loop.running
       THEN /\ loop' = [loop EXCEPT !.earlier = Without(@, i)]
            /\ UNCHANGED <<jobs, plannedDates>>
       ELSE IF planOk
            THEN /\ jobs' = schedule_day(jobs, Date(now), now, settings, calc)
                 /\ plannedDates' = plannedDates \cup {Date(now)}
                 /\ loop' = [loop EXCEPT !.earlier[i] = NextWake(now)]
            ELSE /\ loop' = [loop EXCEPT !.earlier = Without(@, i)]
                 /\ UNCHANGED <<jobs, plannedDates>>
    /\ UNCHANGED now
    /\ LoopFrame

\* The task of an earlier coroutine is cancelled while it sleeps.
LoopEarlierCancelled(i) ==
    /\ i \in 1..Len(loop.earlier)
    /\ loop' = [loop EXCEPT !.earlier = Without(@, i)]
    /\ UNCHANGED <<now, jobs, plannedDates>>
    /\ LoopFrame

RestartNext ==
    \/ \E planOk \in BOOLEAN : LoopStart(planOk)
    \/ \E planOk \in BOOLEAN : LoopWake(planOk)
    \/ LoopCancelled
    \/ LoopStop
    \/ LoopTick
    \/ \E planOk \in BOOLEAN : LoopStartAgain(planOk)
    \/ \E i \in 1..MaxLoops, planOk \in BOOLEAN : LoopEarlierWake(i, planOk)
    \/ \E i \in 1..MaxLoops : LoopEarlierCancelled(i)

RestartSpec == LoopInit /\ [][RestartNext]_vars

\* C37: at most one day-rollover loop is active at any time: while _running
\* is set, at most one coroutine of start() is in its loop and goes on
\* planning days, also after stop() followed by start().
C37_AtMostOneLoop ==
    loop.running => Sleeping <= 1


----------------------------------------------------------------------------
(* PrayerService.timezone_offset: the offset handed to PrayerConf *)

\* ZoneInfo: the offset from UTC of a zone, in seconds, in standard time and
\* in summer time.
ZoneTable ==
    [name \in {"Europe/Istanbul", "Europe/London", "Asia/Kolkata",
               "America/St_Johns", "UTC"} |->
        CASE name = "Europe/Istanbul"  -> [standard |-> 10800, summer |-> 10800]
          [] name = "Europe/London"    -> [standard |-> 0, summer |-> 3600]
          [] name = "Asia/Kolkata"     -> [standard |-> 19800, summer |-> 19800]
          [] name = "America/St_Johns" -> [standard |-> -12600, summer |-> -9000]
          [] name = "UTC"              -> [standard |-> 0, summer |-> 0]]

Zones == DOMAIN ZoneTable

\* The dates of the model that fall in summer time: from the last day on.
InSummerTime(d) == d >= MaxDay

\* datetime.utcoffset() of a moment of date d in the zone
utcoffset(tz_name, d) ==
    IF InSummerTime(d) THEN ZoneTable[tz_name].summer
    ELSE ZoneTable[tz_name].standard

\* int(x / y): towards zero
int_div(x, y) == IF x >= 0 THEN x \div y ELSE -((-x) \div y)

\* timezone_offset: int(datetime.now(tz).utcoffset().total_seconds() / 3600)
timezone_offset(tz_name, t) ==
    int_div(utcoffset(tz_name, Date(t)), SecondsPerHour)

ZoneInit ==
    /\ now \in 0..MaxTime
    /\ calc \in [offsets : {ZeroOffsets}, fajr_isha_method : {DiyanetMethod},
                 tz_name : Zones]
    /\ phase = "running"
    /\ settings = DefaultSettings
    /\ jobs = NoJobs
    /\ started = FALSE
    /\ upd = [pc |-> "idle", stale |-> FALSE]
    /\ isPlaying = FALSE
    /\ process = 0
    /\ procs = [p \in Pids |-> "free"]
    /\ calls = [c \in CallIds |-> FreeCall]
    /\ env = GoodEnv
    /\ loop = NoLoop
    /\ bus = NoBus
    /\ ret = NoRet
    /\ lastEnd = NoEnd
    /\ last = "other"
    /\ replanKeys = << >>
    /\ plannedDates = {}
    /\ schedLast = NoSched

\* calculate(target_date) up to PrayerConf(longitude, latitude,
\* self.timezone_offset, ...)
ZoneCalculate(target_date) ==
    /\ ret' = [op |-> "PrayerConf", tz_name |-> calc.tz_name, now |-> now,
               date |-> target_date,
               timezone |-> timezone_offset(calc.tz_name, now)]
    /\ UNCHANGED calc
    /\ ServiceFrame

\* update_location(location): the zone of the new location
ZoneUpdateLocation(tz_name) ==
    /\ calc' = [calc EXCEPT !.tz_name = tz_name]
    /\ UNCHANGED ret
    /\ ServiceFrame

ZoneNext ==
    \/ \E target_date \in 0..MaxDay : ZoneCalculate(target_date)
    \/ \E tz_name \in Zones : ZoneUpdateLocation(tz_name)

ZoneSpec == ZoneInit /\ [][ZoneNext]_vars

\* C38: the UTC offset that calculate(date) hands to the external calculator
\* equals the offset of the location's zone on the target date, whatever the
\* zone (whole hours or not) and whatever the target date (on either side of
\* a daylight-saving change).
C38_OffsetOfTheTargetDate ==
    ret.op = "PrayerConf" =>
        ret.timezone * SecondsPerHour = utcoffset(ret.tz_name, ret.date)


----------------------------------------------------------------------------
(* PrayerSettings and VolumeSettings: to_dict and from_dict *)

\* dict.get(key, default)
get(data, key, default) == IF key \in DOMAIN data THEN data[key] ELSE default

RECURSIVE list_of(_)

\* [p.value for p in a_set]: the members in the order the set yields them
list_of(S) ==
    IF S = {} THEN << >>
    ELSE LET p == CHOOSE x \in S : TRUE IN <<p>> \o list_of(S \ {p})

\* {PrayerName(p) for p in a_list}
set_of(list) == {list[i] : i \in 1..Len(list)}

\* VolumeSettings.to_dict; a per-prayer volume is None (NotGiven) or a number
VolumeSettings_to_dict(v) ==
    [default |-> v.default, fajr |-> v.fajr, sunrise |-> v.sunrise,
     dhuhr |-> v.dhuhr, asr |-> v.asr, maghrib |-> v.maghrib, isha |-> v.isha]

\* VolumeSettings.from_dict: default = data.get("default", 80) or 80, and a
\* number that is 0 is false for "or"
VolumeSettings_from_dict(data) ==
    [default |-> LET d == get(data, "default", DefaultVolume)
                 IN  IF d = 0 THEN DefaultVolume ELSE d,
     fajr    |-> get(data, "fajr", NotGiven),
     sunrise |-> get(data, "sunrise", NotGiven),
     dhuhr   |-> get(data, "dhuhr", NotGiven),
     asr     |-> get(data, "asr", NotGiven),
     maghrib |-> get(data, "maghrib", NotGiven),
     isha    |-> get(data, "isha", NotGiven)]

\* PrayerSettings.to_dict
PrayerSettings_to_dict(s) ==
    [location |-> [latitude |-> s.location.latitude,
                   longitude |-> s.location.longitude,
                   city |-> s.location.city],
     adhan_type |-> s.adhan_type,
     offsets |-> [p \in Prayers |-> s.offsets[p]],
     volume |-> VolumeSettings_to_dict(s.volume),
     enabled_prayers |-> list_of(s.enabled_prayers),
     pre_alert_minutes |-> s.pre_alert_minutes,
     fajr_isha_method |-> s.fajr_isha_method,
     asr_fiqh |-> s.asr_fiqh]

\* PrayerSettings.from_dict
PrayerSettings_from_dict(data) ==
    LET location_data == get(data, "location", [none |-> 0])
        offsets_data == get(data, "offsets", [none |-> 0])
    IN  [location |-> [latitude |-> get(location_data, "latitude", 41),
                       longitude |-> get(location_data, "longitude", 29),
                       city |-> get(location_data, "city", "")],
         adhan_type |-> get(data, "adhan_type", "istanbul"),
         offsets |-> [p \in Prayers |-> get(offsets_data, p, DIYANET_OFFSETS[p])],
         volume |-> VolumeSettings_from_dict(get(data, "volume", [none |-> 0])),
         enabled_prayers |->
             set_of(get(data, "enabled_prayers", list_of(DefaultEnabled))),
         pre_alert_minutes |-> get(data, "pre_alert_minutes", 0),
         fajr_isha_method |-> get(data, "fajr_isha_method", DiyanetMethod),
         asr_fiqh |-> get(data, "asr_fiqh", 1)]

\* Valid volumes: the ends of 0..100 and values inside.
ValidVolumes == {0, 1, DefaultVolume, 100}

\* Valid settings values: every volume in 0..100, any set of prayers enabled.
ValidSettings ==
    {[location |-> [latitude |-> 41, longitude |-> 29, city |-> "Istanbul"],
      adhan_type |-> "makkah",
      offsets |-> DIYANET_OFFSETS,
      volume |-> [default |-> d, fajr |-> f, sunrise |-> NotGiven,
                  dhuhr |-> NotGiven, asr |-> NotGiven, maghrib |-> NotGiven,
                  isha |-> i],
      enabled_prayers |-> e,
      pre_alert_minutes |-> 0,
      fajr_isha_method |-> DiyanetMethod,
      asr_fiqh |-> 1] :
        d \in ValidVolumes,
        f \in {NotGiven} \cup {Given(v) : v \in {0, 100}},
        i \in {NotGiven} \cup {Given(v) : v \in {0, 100}},
        e \in SUBSET Prayers}

\* s.to_dict(), then PrayerSettings.from_dict of the dictionary
SettingsRoundTrip(s) ==
    /\ ret' = [op |-> "round_trip", s |-> s,
               result |-> PrayerSettings_from_dict(PrayerSettings_to_dict(s))]
    /\ DomainFrame

\* PrayerSettings.from_dict of a dictionary with keys left out
SettingsFromDict(keys) ==
    /\ ret' = [op |-> "from_dict", keys |-> keys,
               result |-> PrayerSettings_from_dict(
                   [k \in keys |-> PrayerSettings_to_dict(
                       CHOOSE s \in ValidSettings : s.volume.default = 1)[k]])]
    /\ DomainFrame

DictNext ==
    \/ \E s \in ValidSettings : SettingsRoundTrip(s)
    \/ \E keys \in SUBSET {"location", "volume", "enabled_prayers"} :
          SettingsFromDict(keys)

DictSpec == DomainInit /\ [][DictNext]_vars

\* C39: serialising and loading settings is a round trip:
\* PrayerSettings.from_dict(s.to_dict()) equals s for every valid settings
\* value s, with every default and per-prayer volume in 0..100 and every
\* subset of prayers as the enabled set.
C39_RoundTrip ==
    ret.op = "round_trip" => ret.result = ret.s


----------------------------------------------------------------------------
(* get_next_prayer against get_current_prayer *)

\* C40: for every instant now on a day whose times are strictly increasing,
\* get_next_prayer(now) names the prayer that follows get_current_prayer(now)
\* in the order of PrayerName, the first following the last, and its date and
\* time are strictly later than now.
C40_NextFollowsCurrent ==
    (/\ ret.op = "get_next_prayer"
     /\ ValidDayTimes(calculate(ret.self, Date(ret.now))))
    => LET current == get_current_prayer(ret.self, ret.now)
           i == CHOOSE k \in 1..Len(PrayerName) : PrayerName[k] = current
       IN  /\ ret.result.name = PrayerName[(i % Len(PrayerName)) + 1]
           /\ ret.result.date * DayLen + ret.result.time > ret.now

C40_BeforeTheFirstPrayer ==
    /\ ret.op = "get_next_prayer"
    /\ ValidDayTimes(calculate(ret.self, Date(ret.now)))
    /\ TimeOf(ret.now) < calculate(ret.self, Date(ret.now))[PrayerName[1]]
    /\ get_current_prayer(ret.self, ret.now) = PrayerName[Len(PrayerName)]
    /\ ret.result.name = PrayerName[1]
    /\ ret.result.date = Date(ret.now)

====
